---- MODULE Spec2Model ----
(***************************************************************************)
(* Model of the scraping scripts of playwright-scrapper-IG: the scroll     *)
(* pagination loops, the selector fallback chains, the per-item extraction *)
(* loops and the number parsers, with the browser page as the environment. *)
(* One operation runs at a time (op); the page answers every query         *)
(* nondeterministically within the bounds below.                           *)
(***************************************************************************)
EXTENDS Integers, Sequences, FiniteSets, TLC

\* ------------------------------------------------------------------ bounds
MaxElems == 3          \* video elements the page can expose
MaxGrow == 2           \* elements a single scroll can reveal
MaxSig == 2            \* distinct scroll offsets / heights the page reports
MaxComments == 2       \* comment elements of a post page
MaxRetries == 3        \* largest `retries` argument tried
MaxPosts == 2          \* post links of a profile grid

\* ------------------------------------------------------- program constants
max_scrolls == 20              \* _load_videos
NoChangeThreshold == 3         \* _load_videos: `if no_change_count >= 3`
DefaultMaxVideos == 30         \* _load_videos(max_videos=30)
max_attempts == 30             \* _scroll_comments_to_end
PostMaxAttempts == 20          \* _scrape_single_post: max_attempts = 20
max_wait == 10                 \* login: max_wait = 10
max_posts == 12                \* _extract_posts_data(page, max_posts=12)

\* -------------------------------------------------------------------- text
\* A text is a sequence of one-character strings.  None is Python's None /
\* a query that matched no node.
None == <<"None">>

Digits == <<"0", "1", "2", "3", "4", "5", "6", "7", "8", "9">>
IsDigit(c) == \E i \in 1..10 : Digits[i] = c
DigitVal(c) == (CHOOSE i \in 1..10 : Digits[i] = c) - 1
IsSpace(c) == c \in {" ", "\t", "\n"}

RECURSIVE LStrip(_)
LStrip(s) == IF s # <<>> /\ IsSpace(Head(s)) THEN LStrip(Tail(s)) ELSE s
RECURSIVE RStrip(_)
RStrip(s) == IF s # <<>> /\ IsSpace(s[Len(s)]) THEN RStrip(SubSeq(s, 1, Len(s) - 1)) ELSE s
\* str.strip()
Strip(s) == RStrip(LStrip(s))

UpperChar(c) ==
    CASE c = "k" -> "K" [] c = "m" -> "M" [] c = "b" -> "B" [] c = "a" -> "A"
      [] c = "c" -> "C" [] c = "l" -> "L" [] c = "i" -> "I" [] c = "e" -> "E" [] c = "s" -> "S"
      [] OTHER -> c
\* str.upper()
Upper(s) == [i \in 1..Len(s) |-> UpperChar(s[i])]

RECURSIVE RemoveChar(_, _)
\* str.replace(c, '')
RemoveChar(s, c) ==
    IF s = <<>> THEN <<>>
    ELSE IF Head(s) = c THEN RemoveChar(Tail(s), c)
    ELSE <<Head(s)>> \o RemoveChar(Tail(s), c)

RECURSIVE Pow10(_)
Pow10(n) == IF n = 0 THEN 1 ELSE 10 * Pow10(n - 1)

\* A numeral of digits and dots, as float() reads it: at most one dot and at
\* least one digit, otherwise ValueError.
DotCount(s) == Cardinality({i \in 1..Len(s) : s[i] = "."})
FloatOk(s) == DotCount(s) <= 1 /\ \E i \in 1..Len(s) : IsDigit(s[i])
RECURSIVE Mantissa(_, _)
Mantissa(s, acc) ==
    IF s = <<>> THEN acc
    ELSE IF Head(s) = "." THEN Mantissa(Tail(s), acc)
    ELSE Mantissa(Tail(s), acc * 10 + DigitVal(Head(s)))
FracLen(s) ==
    IF DotCount(s) = 0 THEN 0
    ELSE Len(s) - (CHOOSE i \in 1..Len(s) : s[i] = ".")
\* int(float(numeral) * multiplier), for a numeral that float() accepts
\* (the multiplier and the scale are powers of ten: they are cancelled before
\* the product is taken)
ScaledInt(s, mult) ==
    LET scale == Pow10(FracLen(s))
    IN IF mult >= scale THEN Mantissa(s, 0) * (mult \div scale)
       ELSE (Mantissa(s, 0) * mult) \div scale

Multiplier(suffix) ==
    CASE suffix = "K" -> 1000 [] suffix = "M" -> 1000000
      [] suffix = "B" -> 1000000000 [] OTHER -> 1

Returned(v) == [raised |-> FALSE, val |-> v]
Raised == [raised |-> TRUE, val |-> 0]

IsNumChar(c) == IsDigit(c) \/ c = "."
\* re.search(r'([\d.]+)([KMB]?)', text): the leftmost maximal run of digits
\* and dots, and the suffix letter right after it, if any.
MatchStart(t) == CHOOSE i \in 1..Len(t) : IsNumChar(t[i]) /\ \A j \in 1..(i - 1) : ~IsNumChar(t[j])
MatchEnd(t) ==
    LET s == MatchStart(t)
    IN CHOOSE e \in s..Len(t) :
          /\ \A j \in s..e : IsNumChar(t[j])
          /\ (e = Len(t) \/ ~IsNumChar(t[e + 1]))

\* AdvancedTikTokXPathScraper.parse_count
parse_count(text) ==
    IF text = None \/ text = <<>> THEN Returned(0)
    ELSE LET t == RemoveChar(Upper(Strip(text)), ",")
         IN IF ~\E i \in 1..Len(t) : IsNumChar(t[i]) THEN Returned(0)
            ELSE LET s == MatchStart(t)
                     e == MatchEnd(t)
                     numeral == SubSeq(t, s, e)
                     suffix == IF e < Len(t) /\ t[e + 1] \in {"K", "M", "B"} THEN t[e + 1] ELSE ""
                 IN IF FloatOk(numeral) THEN Returned(ScaledInt(numeral, Multiplier(suffix)))
                    ELSE Raised

\* TikTokProfileScraper.parse_count: as above, but commas are not removed, so
\* the match ends at the first thousands separator.
TikTok_parse_count(text) ==
    IF text = None \/ text = <<>> THEN Returned(0)
    ELSE LET t == Upper(Strip(text))
         IN IF ~\E i \in 1..Len(t) : IsNumChar(t[i]) THEN Returned(0)
            ELSE LET s == MatchStart(t)
                     e == MatchEnd(t)
                     numeral == SubSeq(t, s, e)
                     suffix == IF e < Len(t) /\ t[e + 1] \in {"K", "M", "B"} THEN t[e + 1] ELSE ""
                 IN IF FloatOk(numeral) THEN Returned(ScaledInt(numeral, Multiplier(suffix)))
                    ELSE Raised

\* text.strip().split()[0]: the first whitespace-delimited token; IndexError
\* (here <<>>) when the text holds no token.
FirstToken(text) ==
    LET t == Strip(text)
    IN IF \E i \in 1..Len(t) : IsSpace(t[i])
       THEN SubSeq(t, 1, (CHOOSE i \in 1..Len(t) : IsSpace(t[i]) /\ \A j \in 1..(i - 1) : ~IsSpace(t[j])) - 1)
       ELSE t
Contains(s, c) == \E i \in 1..Len(s) : s[i] = c

\* float(s): surrounding whitespace is ignored, then an optional sign followed
\* by digits and at most one dot; every other text is a ValueError.
Unsigned(s) == IF s # <<>> /\ Head(s) \in {"+", "-"} THEN Tail(s) ELSE s
FloatAccepts(s) ==
    LET u == Unsigned(Strip(s))
    IN u # <<>> /\ (\A i \in 1..Len(u) : IsNumChar(u[i])) /\ FloatOk(u)
\* int(float(s) * multiplier): truncation toward zero
SignedScaledInt(s, mult) ==
    LET t == Strip(s)
    IN IF t # <<>> /\ Head(t) = "-" THEN 0 - ScaledInt(Unsigned(t), mult)
       ELSE ScaledInt(Unsigned(t), mult)

\* InstagramCommentsScraper._parse_number: every exception is caught, 0 returned
IgComments_parse_number(text) ==
    LET tok == FirstToken(text)
        up == Upper(tok)
        multiplier == IF Contains(up, "K") THEN 1000 ELSE IF Contains(up, "M") THEN 1000000 ELSE 1
        stripped == IF Contains(up, "K") THEN RemoveChar(up, "K")
                    ELSE IF Contains(up, "M") THEN RemoveChar(up, "M") ELSE tok
        numeral == RemoveChar(stripped, ",")
    IN IF text = None \/ tok = <<>> THEN 0
       ELSE IF FloatAccepts(numeral) THEN SignedScaledInt(numeral, multiplier)
       ELSE 0

\* -------------------------------------------------------------- the page
\* A video element of the profile page: the text of its views node and the
\* href of its link node (None when the node is missing), and whether the
\* element handle is detached (every query through it raises).
VideoElem(v, h, d) == [views |-> v, href |-> h, detached |-> d]
ElemKinds ==
    { VideoElem(<<" ", "1", "2", " ">>, <<"/", "v", "1">>, FALSE),
      VideoElem(<<"1", ".", "5", "K">>, <<>>, FALSE),
      VideoElem(None, None, FALSE),
      VideoElem(None, None, TRUE) }

SeqsUpTo(S, n) == UNION {[1..k -> S] : k \in 0..n}

VARIABLES
    op,               \* the operation in progress, "idle" between operations
    pc,               \* its position
    elems,            \* the video elements the page exposes, document order
    max_videos,       \* _load_videos: argument
    videos,           \* _load_videos: records extracted so far
    scroll_attempts,  \* _load_videos: scrolls performed
    last_count,       \* _load_videos: element count of the previous pass
    no_change_count,  \* _load_videos: consecutive unchanged counts
    ret,              \* what the operation handed to its caller
    script,           \* element counts a scripted page shows, pass by pass
    nreads,           \* element-count readings taken by _load_videos
    prev_scroll,      \* _scroll_comments_to_end: scrollTop of the previous attempt
    sc_i,             \* _scroll_comments_to_end: scroll actions performed
    sc_flag,          \* _scroll_comments_to_end: its return value, "None" before
    comment_elements, \* scrape_post_comments: the comment elements located
    comments_data,    \* scrape_post_comments: the dict being filled
    sp_i,             \* _scrape_single_post: scroll actions performed in the comment window
    val1,             \* _scrape_single_post: scrollHeight returned by the scroll
    curr_scroll,      \* _scrape_single_post: scrollHeight read after the sleep
    like_texts,       \* _scrape_single_post: texts of the comment-like nodes located
    post_data,        \* _scrape_single_post: the dict being filled
    retries,          \* _wait_for_selector_with_retries: argument
    attempt,          \* _wait_for_selector_with_retries: retry iterations begun
    waits,            \* _wait_for_selector_with_retries: wait_for_selector calls made
    ws_scrolls,       \* _wait_for_selector_with_retries: scrolls performed
    ws_found,         \* _wait_for_selector_with_retries: a wait succeeded
    ws_first,         \* _wait_for_selector_with_retries: how the initial wait ended
    lg_checks,        \* login: _is_login_page() calls made by the wait loop
    stat_queries,     \* _extract_profile_stats: what the two locators of each counter yield
    profile,          \* _extract_profile_stats: the counters extracted
    pe_page,          \* _extract_post_engagement: what the post page's locators yield
    pe_data,          \* _extract_post_engagement: the data dict
    post_pages,       \* _extract_posts_data: the post pages behind the links found
    pd_i,             \* _extract_posts_data: links processed
    posts,            \* _extract_posts_data: the records appended
    open_pages,       \* _extract_posts_data: post pages opened and not closed
    pd_max,           \* _extract_posts_data: argument max_posts
    pd_found,         \* _extract_posts_data: number of post links the locator found
    pd_trail,         \* _extract_posts_data: the gotos and pauses between posts, in order
    parse_text,       \* number parsers: the argument
    parsed,           \* number parsers: which parser ran and what it returned
    records,          \* aggregation: the post / video records given
    followers_count,  \* aggregation: the profile's follower count
    profile_likes,    \* aggregation: the profile's total likes counter
    targets,          \* batch: for each target in order, whether its page loads
    batch_fn,         \* batch: the function that iterates over the targets
    attempted,        \* batch: the targets whose page load was attempted, in order
    results,          \* batch: the list the function accumulates
    num_posts,        \* batch: scrape_posts: argument
    post_links,       \* batch: scrape_posts: the post links the locator found
    bt_trail,         \* batch: the gotos and pauses between targets, in order
    sess_fn,          \* session: whose main() runs
    login_env,        \* session: how Instagram answers the login flow
    login_ret,        \* session: what login() returned, "unset" before
    submitted,        \* session: clicks attempted on the login button
    profile_scraped,  \* session: scrape_profile was called
    guest_mode,       \* scrapper-ig scrape_profile: self.guest_mode
    login_wall,       \* scrapper-ig scrape_profile: the page shows a login wall text
    page_data,        \* scrapper-ig scrape_profile: profile_data and posts_data read from the page
    fetch,            \* scrapper-ig scrape_profile: what the public JSON endpoint answers
    used_data,        \* scrapper-ig scrape_profile: the arguments of _calculate_engagement
    lc_fn,            \* entry point: the script whose entry point runs
    lc_env,           \* entry point: how far start gets and how the work ends
    lc_pc,            \* entry point: position
    browser,          \* entry point: "none", "open" or "closed"
    closes,           \* entry point: calls of browser.close() so far
    driver,           \* entry point: the Playwright driver: "none", "running" or "stopped"
    page_ops,         \* entry point: page operations performed
    late_ops,         \* entry point: page operations performed on a closed browser
    stopped_open,     \* entry point: the driver was stopped while the browser was open
    metrics           \* aggregation: which function ran and what it returned

lvVars == <<elems, max_videos, videos, scroll_attempts, last_count, no_change_count, script, nreads>>
scVars == <<prev_scroll, sc_i, sc_flag>>
pcVars == <<comment_elements, comments_data>>
spVars == <<sp_i, val1, curr_scroll, like_texts, post_data>>
wsVars == <<retries, attempt, waits, ws_scrolls, ws_found, ws_first>>
lgVars == <<lg_checks>>
psVars == <<stat_queries, profile>>
peVars == <<pe_page, pe_data>>
pdVars == <<post_pages, pd_i, posts, open_pages, pd_max, pd_found, pd_trail>>
pnVars == <<parse_text, parsed>>
\* the state of the functions that do not touch the page
agVars == <<records, followers_count, profile_likes, metrics>>
pureVars == <<pnVars, agVars>>
\* the state of the batch functions and of main()
btVars == <<targets, batch_fn, attempted, results, num_posts, post_links, bt_trail>>
ssVars == <<sess_fn, login_env, login_ret, submitted, profile_scraped>>
fbVars == <<guest_mode, login_wall, page_data, fetch, used_data>>
lcVars == <<lc_fn, lc_env, lc_pc, browser, closes, driver, page_ops, late_ops, stopped_open>>
xtVars == <<fbVars, lcVars>>
drVars == <<btVars, ssVars, xtVars>>
\* what the actions of one operation leave alone: the other operations' state
KeepButLv == <<scVars, pcVars, spVars, wsVars, lgVars, psVars, peVars, pdVars, pureVars, drVars>>
KeepButPc == <<lvVars, spVars, wsVars, lgVars, psVars, peVars, pdVars, pureVars, drVars>>
KeepButSp == <<lvVars, scVars, pcVars, wsVars, lgVars, psVars, peVars, pdVars, pureVars, drVars>>
KeepButWs == <<lvVars, scVars, pcVars, spVars, lgVars, psVars, peVars, pdVars, pureVars, drVars>>
KeepButLg == <<lvVars, scVars, pcVars, spVars, wsVars, psVars, peVars, pdVars, pureVars, drVars>>
KeepButPs == <<lvVars, scVars, pcVars, spVars, wsVars, lgVars, peVars, pdVars, pureVars, drVars>>
KeepButPe == <<lvVars, scVars, pcVars, spVars, wsVars, lgVars, psVars, pdVars, pureVars, drVars>>
KeepButPd == <<lvVars, scVars, pcVars, spVars, wsVars, lgVars, psVars, peVars, pureVars, drVars>>
vars == <<op, pc, ret, lvVars, scVars, pcVars, spVars, wsVars, lgVars, psVars, peVars, pdVars, pureVars, drVars>>
\* the state of the page-driven operations
pageVars == <<lvVars, scVars, pcVars, spVars, wsVars, lgVars, psVars, peVars, pdVars>>

\* What a function hands to its caller: a flag ("True"/"False", "None" when it
\* returns no flag), the items it returns, and whether it raised instead.
Result(flag, items) == [flag |-> flag, items |-> items, raised |-> FALSE]
Raises == [flag |-> "None", items |-> <<>>, raised |-> TRUE]
NoResult == [flag |-> "None", items |-> <<>>, raised |-> FALSE]

\* ----------------------------------------------------------- _load_videos
\* Python's seq[:n]
Take(s, n) ==
    IF n >= 0 THEN SubSeq(s, 1, IF n < Len(s) THEN n ELSE Len(s))
    ELSE SubSeq(s, 1, IF Len(s) + n > 0 THEN Len(s) + n ELSE 0)

\* What one query yields: it raises (no node within the timeout, a malformed
\* selector, a detached node), or it returns a node's text, None for no node.
Miss == [raises |-> TRUE, text |-> <<>>]
Found(t) == [raises |-> FALSE, text |-> t]

\* get_element_text(xpath, default=''): the stripped text of the node the page
\* query returns; the default when there is no node or the query raises.
get_element_text(q) ==
    IF q.raises \/ q.text = None THEN <<>> ELSE Strip(q.text)

\* page.query_selector of the views xpath with the page as scope: the first
\* views node of the document, whichever video element it belongs to.
FirstViewsNode(els) ==
    IF \E i \in 1..Len(els) : els[i].views # None
    THEN Found(els[CHOOSE i \in 1..Len(els) :
                     els[i].views # None /\ \A j \in 1..(i - 1) : els[j].views = None].views)
    ELSE Found(None)

VideoRecord(index, views, url) == [index |-> index, views |-> views, url |-> url]

\* The try block of the loop body raises for this element: a query through a
\* detached handle, or float() inside parse_count.
VideoRaises(els, el) ==
    LET docText == get_element_text(FirstViewsNode(els))
        views_text == IF docText # <<>> THEN docText
                      ELSE IF el.views # None THEN el.views ELSE <<"0">>
    IN el.detached \/ parse_count(views_text).raised

\* The body of `for idx, video_element in enumerate(...)` for one element that
\* has no record yet: the record the try block builds, or the default record
\* of the except block.
ExtractVideoIndexed(els, el, index) ==
    LET docText == get_element_text(FirstViewsNode(els))
        views_text == IF docText # <<>> THEN docText
                      ELSE IF el.views # None THEN el.views ELSE <<"0">>
        video_url == IF el.href # None THEN el.href ELSE <<>>
    IN IF VideoRaises(els, el)
       THEN VideoRecord(index, 0, None)
       ELSE VideoRecord(index, parse_count(views_text).val,
                        IF video_url # <<>> THEN video_url ELSE None)

\* mutant: the record carries the 0-based loop index
ExtractVideo_ZeroBased(els, el, idx) == ExtractVideoIndexed(els, el, idx)
\* 'index': idx + 1
ExtractVideo(els, el, idx) == ExtractVideoIndexed(els, el, idx + 1)

RECURSIVE ExtractLoop_AbortOnFailure(_, _, _, _)
\* mutant: the except block leaves the for loop instead of appending a default
ExtractLoop_AbortOnFailure(els, shown, idx, vids) ==
    IF idx >= Len(shown) THEN vids
    ELSE IF idx >= Len(vids) /\ VideoRaises(els, shown[idx + 1]) THEN vids
    ELSE ExtractLoop_AbortOnFailure(els, shown, idx + 1,
                     IF idx >= Len(vids)
                     THEN Append(vids, ExtractVideo(els, shown[idx + 1], idx))
                     ELSE vids)

RECURSIVE ExtractLoop(_, _, _, _)
\* for idx, video_element in enumerate(video_elements[:max_videos]):
\*     if idx >= len(videos): ... videos.append(...)
ExtractLoop(els, shown, idx, vids) ==
    IF idx >= Len(shown) THEN vids
    ELSE ExtractLoop(els, shown, idx + 1,
                     IF idx >= Len(vids)
                     THEN Append(vids, ExtractVideo(els, shown[idx + 1], idx))
                     ELSE vids)

\* mutant: every pass rebuilds the list from the elements it sees
ExtractPass_Rebuild(els, video_elements, maxv, vids) ==
    ExtractLoop(els, Take(video_elements, maxv), 0, <<>>)
\* one pass of the for loop over the elements read in this iteration
ExtractPass(els, video_elements, maxv, vids) ==
    ExtractLoop(els, Take(video_elements, maxv), 0, vids)

StartLoadVideos ==
    /\ op = "idle"
    /\ \E m \in {0, 1, 2, DefaultMaxVideos}, first \in SeqsUpTo(ElemKinds, 1) :
          /\ max_videos' = m
          /\ elems' = first
    /\ op' = "load_videos"
    /\ pc' = "while"
    /\ videos' = <<>>
    /\ scroll_attempts' = 0
    /\ last_count' = 0
    /\ no_change_count' = 0
    /\ nreads' = 0
    /\ ret' = NoResult
    /\ UNCHANGED <<script, KeepButLv>>

\* mutant: the loop condition forgets the attempt cap
LoadVideosWhile_NoCap(vids, maxv, attempts) == Len(vids) < maxv
\* mutant: the attempt cap is off by one
LoadVideosWhile_OneMore(vids, maxv, attempts) == Len(vids) < maxv /\ attempts <= max_scrolls
\* while len(videos) < max_videos and scroll_attempts < max_scrolls
LoadVideosWhile(vids, maxv, attempts) == Len(vids) < maxv /\ attempts < max_scrolls

\* mutant: the loop breaks one unchanged reading early
StableReached_OneEarly(ncc) == ncc >= NoChangeThreshold - 1
\* if no_change_count >= 3: break
StableReached(ncc) == ncc >= NoChangeThreshold

\* One iteration of the while loop.  getFails: query_selector_all raised and
\* get_elements returned []; scrollRaises: page.evaluate raised; nextElems:
\* the elements the page exposes once the scroll and the sleep are over.
LoadVideosBody(getFails, scrollRaises, nextElems) ==
    /\ op = "load_videos" /\ pc = "while"
    /\ LoadVideosWhile(videos, max_videos, scroll_attempts)
    /\ LET video_elements == IF getFails THEN <<>> ELSE elems
           current_count == Len(video_elements)
           vids == ExtractPass(elems, video_elements, max_videos, videos)
           unchanged == current_count = last_count
           ncc == IF unchanged THEN no_change_count + 1 ELSE 0
       IN /\ videos' = vids
          /\ no_change_count' = ncc
          /\ nreads' = nreads + 1
          /\ IF unchanged /\ StableReached(ncc)
             THEN /\ pc' = "return"
                  /\ UNCHANGED <<last_count, scroll_attempts, elems>>
             ELSE /\ last_count' = current_count
                  /\ IF scrollRaises
                     THEN /\ pc' = "raise"
                          /\ UNCHANGED <<scroll_attempts, elems>>
                     ELSE /\ elems' = nextElems
                          /\ scroll_attempts' = scroll_attempts + 1
                          /\ pc' = IF Len(vids) >= max_videos THEN "return" ELSE "while"
    /\ UNCHANGED <<op, ret, max_videos, script, KeepButLv>>

\* the pages a scroll can lead to: the same elements, or up to MaxGrow more
Growths(els) ==
    {els} \cup {els \o new : new \in {n \in SeqsUpTo(ElemKinds, MaxGrow) : Len(els) + Len(n) <= MaxElems}}

LoadVideosPass ==
    /\ script = <<>>
    /\ \E getFails \in BOOLEAN, scrollRaises \in BOOLEAN, nextElems \in Growths(elems) :
          /\ scrollRaises => nextElems = elems
          /\ LoadVideosBody(getFails, scrollRaises, nextElems)

\* return videos[:max_videos], reached from a break or a false loop condition
LoadVideosReturn ==
    /\ op = "load_videos"
    /\ \/ pc = "return"
       \/ pc = "while" /\ ~LoadVideosWhile(videos, max_videos, scroll_attempts)
    /\ pc' = "done"
    /\ ret' = Result("None", Take(videos, max_videos))
    /\ UNCHANGED <<op, lvVars, KeepButLv>>

\* the exception of page.evaluate leaves _load_videos
LoadVideosRaise ==
    /\ op = "load_videos" /\ pc = "raise"
    /\ pc' = "done"
    /\ ret' = Raises
    /\ UNCHANGED <<op, lvVars, KeepButLv>>

\* --------------------------------------------------- scrape_post_comments
NA == <<"N", "/", "A">>

RECURSIVE ResolveText_EmptyBeforeTrim(_, _)
\* mutant: the text is tested for emptiness before it is trimmed only
ResolveText_EmptyBeforeTrim(candidates, default) ==
    IF candidates = <<>> THEN default
    ELSE LET c == Head(candidates)
         IN IF ~c.raises /\ c.text # <<>> THEN Strip(c.text)
            ELSE ResolveText_EmptyBeforeTrim(Tail(candidates), default)

RECURSIVE ResolveText_StopOnRaise(_, _)
\* mutant: one try around the whole loop, so the first error ends the chain
ResolveText_StopOnRaise(candidates, default) ==
    IF candidates = <<>> THEN default
    ELSE LET c == Head(candidates)
         IN IF c.raises THEN default
            ELSE IF c.text # <<>> /\ Strip(c.text) # <<>> THEN Strip(c.text)
            ELSE ResolveText_StopOnRaise(Tail(candidates), default)

\* for selector in selectors: try: text = ...inner_text(); if text and
\* text.strip(): field = text.strip(); break / except: continue
RECURSIVE ResolveText(_, _)
ResolveText(candidates, default) ==
    IF candidates = <<>> THEN default
    ELSE LET c == Head(candidates)
         IN IF ~c.raises /\ c.text # <<>> /\ Strip(c.text) # <<>> THEN Strip(c.text)
            ELSE ResolveText(Tail(candidates), default)

\* A comment element: what its username locator and its two text locators yield.
CommentElem(u, t1, t2) == [user |-> <<u>>, text |-> <<t1, t2>>]
CommentKinds ==
    { CommentElem(u, t1, t2) :
        u \in {Miss, Found(<<" ", "u", " ">>)},
        t1 \in {Miss, Found(<<" ">>), Found(<<" ", "a", " ">>)},
        t2 \in {Miss, Found(<<>>), Found(<<"b">>)} }

CommentRecord(index, username, text) == [index |-> index, username |-> username, text |-> text]

\* InstagramCommentsScraper._extract_comment_data
extract_comment_data(comment_elem, idx) ==
    CommentRecord(idx, ResolveText(comment_elem.user, NA), ResolveText(comment_elem.text, NA))

RECURSIVE ExtractCommentsLoop(_, _, _)
\* for idx, comment_elem in enumerate(comment_elements, 1):
\*     comment_info = self._extract_comment_data(comment_elem, idx)
\*     if comment_info: comments_detail.append(comment_info)
ExtractCommentsLoop(els, idx, detail) ==
    IF idx > Len(els) THEN detail
    ELSE ExtractCommentsLoop(els, idx + 1, Append(detail, extract_comment_data(els[idx], idx)))

CommentsData(username, likes, hearts, comments, details) ==
    [username |-> username, likes |-> likes, hearts |-> hearts,
     comments |-> comments, comments_details |-> details]
EmptyCommentsData == CommentsData(NA, 0, 0, 0, <<>>)

\* scrape_post_comments up to the scroll: page.goto, then the query for the
\* comment window.  A failed navigation returns []; a query that raises lands
\* in the outer except, which returns comments_data as it stands.
StartScrapePostComments ==
    /\ op = "idle"
    /\ op' = "post_comments"
    /\ comments_data' = EmptyCommentsData
    /\ \E outcome \in {"nav_fails", "query_raises", "window", "no_window", "no_window_scroll_raises"} :
          \/ /\ outcome = "nav_fails"
             /\ pc' = "done"
             /\ ret' = Result("None", <<>>)
          \/ /\ outcome \in {"query_raises", "no_window_scroll_raises"}
             /\ pc' = "done"
             /\ ret' = Result("None", EmptyCommentsData.comments_details)
          \/ /\ outcome = "window"
             /\ pc' = "scroll"
             /\ ret' = NoResult
          \/ /\ outcome = "no_window"
             /\ pc' = "extract"
             /\ ret' = NoResult
    /\ prev_scroll' = -1
    /\ sc_i' = 0
    /\ sc_flag' = "None"
    /\ UNCHANGED <<comment_elements, KeepButPc>>

\* One iteration of `for i in range(max_attempts)` of _scroll_comments_to_end:
\* scroll, sleep, read scrollTop, compare; the 30th unequal reading falls out
\* of the loop to `return False`.
ScrollCommentsIter ==
    /\ op = "post_comments" /\ pc = "scroll"
    /\ sc_i < max_attempts
    /\ \E evalRaises \in BOOLEAN, scrollTop \in 0..MaxSig :
          IF evalRaises
          THEN /\ pc' = "scroll_raised"
               /\ UNCHANGED <<ret, scVars>>
          ELSE /\ sc_i' = sc_i + 1
               /\ IF scrollTop = prev_scroll
                  THEN /\ sc_flag' = "True"
                       /\ pc' = "scrolled"
                       /\ UNCHANGED prev_scroll
                  ELSE /\ prev_scroll' = scrollTop
                       /\ IF sc_i + 1 >= max_attempts
                          THEN sc_flag' = "False" /\ pc' = "scrolled"
                          ELSE sc_flag' = sc_flag /\ pc' = "scroll"
               /\ UNCHANGED ret
    /\ UNCHANGED <<op, pcVars, KeepButPc>>

\* The exception of page.evaluate leaves _scroll_comments_to_end and lands in
\* the outer except of scrape_post_comments, which returns comments_data.
ScrollCommentsRaise ==
    /\ op = "post_comments" /\ pc = "scroll_raised"
    /\ pc' = "done"
    /\ ret' = Result("None", comments_data.comments_details)
    /\ UNCHANGED <<op, scVars, pcVars, KeepButPc>>

\* _scroll_comments_to_end returns to line 252 of scrape_post_comments, which
\* drops the returned flag; the locals of the scroll are gone.
ScrollCommentsReturn ==
    /\ op = "post_comments" /\ pc = "scrolled"
    /\ pc' = "extract"
    /\ prev_scroll' = -1
    /\ sc_i' = 0
    /\ UNCHANGED <<op, ret, sc_flag, pcVars, KeepButPc>>

\* The rest of scrape_post_comments: the comment elements are located, the post's username is
\* resolved over its two locators, the likes elements are counted, the heart
\* count is parsed and every comment element is extracted.
ExtractComments ==
    /\ op = "post_comments" /\ pc = "extract"
    /\ \E els \in SeqsUpTo(CommentKinds, MaxComments),
          allRaises \in BOOLEAN, likesRaises \in BOOLEAN,
          u1 \in {Miss, Found(<<" ", "x">>)}, u2 \in {Miss, Found(<<"y">>)},
          likes \in 0..1, heart \in {Miss, Found(<<"2", "K">>)} :
          IF allRaises
          THEN /\ comments_data' = comments_data
               /\ comment_elements' = <<>>
               /\ ret' = Result("None", comments_data.comments_details)
          ELSE IF likesRaises
          THEN /\ comments_data' = CommentsData(ResolveText(<<u1, u2>>, NA), 0, 0, Len(els), <<>>)
               /\ comment_elements' = els
               /\ ret' = Result("None", <<>>)
          ELSE LET details == ExtractCommentsLoop(els, 1, <<>>)
                   hearts == IF heart.raises THEN 0 ELSE IgComments_parse_number(heart.text)
               IN /\ comments_data' = CommentsData(ResolveText(<<u1, u2>>, NA), likes, hearts, Len(els), details)
                  /\ comment_elements' = els
                  /\ ret' = Result("None", details)
    /\ pc' = "done"
    /\ UNCHANGED <<op, scVars, KeepButPc>>

\* ---------------------------------------------------- _scrape_single_post
RECURSIVE RemoveSub(_, _)
\* str.replace(sub, '')
RemoveSub(s, sub) ==
    IF Len(s) < Len(sub) THEN s
    ELSE IF SubSeq(s, 1, Len(sub)) = sub THEN RemoveSub(SubSeq(s, Len(sub) + 1, Len(s)), sub)
    ELSE <<Head(s)>> \o RemoveSub(Tail(s), sub)

\* InstagramScraper._parse_number: split()[0] is outside the try, so a text
\* without a token raises IndexError; a token float() rejects gives 0.
Ig_parse_number(text) ==
    LET tok == FirstToken(text)
        up == Upper(tok)
        multiplier == IF Contains(up, "K") THEN 1000 ELSE IF Contains(up, "M") THEN 1000000 ELSE 1
        stripped == IF Contains(up, "K") THEN RemoveChar(up, "K")
                    ELSE IF Contains(up, "M") THEN RemoveChar(up, "M") ELSE tok
        numeral == RemoveChar(stripped, ",")
    IN IF tok = <<>> THEN Raised
       ELSE IF FloatAccepts(numeral) THEN Returned(SignedScaledInt(numeral, multiplier))
       ELSE Returned(0)

Likes == <<"l", "i", "k", "e", "s">>
LikeTexts == { <<"2", "K", " ">> \o Likes, <<"3", " ">> \o Likes }

\* The value one comment-like text appends to likes_onComments (lines 314-321)
LikesOnComment(text_content) ==
    LET count == Ig_parse_number(text_content).val
        rest == Upper(Strip(RemoveSub(text_content, Likes)))
    IN IF Contains(rest, "K") THEN count * 1000
       ELSE IF Contains(rest, "M") THEN count * 1000000
       ELSE count

RECURSIVE SumSeq(_)
SumSeq(s) == IF s = <<>> THEN 0 ELSE Head(s) + SumSeq(Tail(s))

\* post_data, without its caption and timestamp strings
PostData(likes, comments) == [likes |-> likes, comments |-> comments]

\* page.goto and the query for the comment window.  page.goto is outside any
\* try: its exception leaves the function.  Without a window the main page is
\* scrolled once; an exception (of the query or of that scroll) is caught by
\* the except of line 296.
StartScrapeSinglePost ==
    /\ op = "idle"
    /\ op' = "single_post"
    /\ \E outcome \in {"goto_raises", "window", "no_window"} :
          /\ pc' = IF outcome = "goto_raises" THEN "done"
                   ELSE IF outcome = "window" THEN "window_loop" ELSE "post_details"
          /\ ret' = IF outcome = "goto_raises" THEN Raises ELSE NoResult
    /\ sp_i' = 0
    /\ val1' = -1
    /\ curr_scroll' = -2
    /\ like_texts' = <<>>
    /\ post_data' = PostData(0, 0)
    /\ UNCHANGED KeepButSp

\* One iteration of `for i in range(max_attempts)` in the comment window: the
\* scroll returns the scrollHeight it assigned, the height is read again after
\* the sleep, equal heights break.  An exception leaves the loop through the
\* except of line 296.
SinglePostScrollIter ==
    /\ op = "single_post" /\ pc = "window_loop"
    /\ sp_i < PostMaxAttempts
    /\ \E evalRaises \in BOOLEAN, h1 \in 0..MaxSig, h2 \in 0..MaxSig :
          IF evalRaises
          THEN /\ pc' = "window_raised"
               /\ UNCHANGED spVars
          ELSE /\ sp_i' = sp_i + 1
               /\ val1' = h1
               /\ curr_scroll' = h2
               /\ pc' = IF h1 = h2 \/ sp_i + 1 >= PostMaxAttempts THEN "window_done" ELSE "window_loop"
               /\ UNCHANGED <<like_texts, post_data>>
    /\ UNCHANGED <<op, ret, KeepButSp>>

\* After the loop (line 291, whose own exception is caught too) or in the
\* except of line 296, the function goes on to fill post_data.
SinglePostAfterLoop ==
    /\ op = "single_post" /\ pc \in {"window_done", "window_raised"}
    /\ pc' = "post_details"
    /\ UNCHANGED <<op, ret, spVars, KeepButSp>>

\* The rest of _scrape_single_post: the likes of every comment-like node are
\* summed (an exception leaves likes at 0), the comment buttons are counted,
\* and post_data is returned.
ScrapePostDetails ==
    /\ op = "single_post" /\ pc = "post_details"
    /\ \E texts \in SeqsUpTo(LikeTexts, 2), likesRaise \in BOOLEAN, comments \in 0..1 :
          /\ like_texts' = IF likesRaise THEN <<>> ELSE texts
          /\ LET likes_onComments == [i \in 1..Len(texts) |-> LikesOnComment(texts[i])]
                 likes == IF likesRaise THEN 0 ELSE SumSeq(likes_onComments)
             IN /\ post_data' = PostData(likes, comments)
                /\ ret' = Result("None", <<PostData(likes, comments)>>)
    /\ pc' = "done"
    /\ UNCHANGED <<op, sp_i, val1, curr_scroll, KeepButSp>>

\* ---------------------------------------- _wait_for_selector_with_retries
\* The first wait_for_selector: found, PlaywrightTimeout, or another error.
\* mutant: every failure of the initial wait is retried
AfterInitialWait_RetryAll(outcome) == IF outcome = "found" THEN "done" ELSE "retry"
\* only PlaywrightTimeout of the initial wait enters the retry loop; any
\* other exception is caught by `except Exception: return False`
AfterInitialWait(outcome) == IF outcome = "timeout" THEN "retry" ELSE "done"

StartWaitForSelector ==
    /\ op = "idle"
    /\ op' = "wait_selector"
    /\ \E r \in 0..MaxRetries, outcome \in {"found", "timeout", "error"} :
          /\ retries' = r
          /\ ws_found' = (outcome = "found")
          /\ ws_first' = outcome
          /\ pc' = AfterInitialWait(outcome)
          /\ ret' = IF outcome = "found" THEN Result("True", <<>>)
                    ELSE IF outcome = "error" THEN Result("False", <<>>) ELSE NoResult
    /\ attempt' = 0
    /\ waits' = 1
    /\ ws_scrolls' = 0
    /\ UNCHANGED KeepButWs

\* One iteration of `for attempt in range(retries)`: scroll, sleep, wait.  A
\* scroll that raises skips the wait of this iteration; an exhausted range
\* falls through to `return False`.
WaitForSelectorRetry ==
    /\ op = "wait_selector" /\ pc = "retry"
    /\ IF attempt < retries
       THEN \E outcome \in {"scroll_raises", "found", "timeout", "error"} :
               /\ attempt' = attempt + 1
               /\ ws_scrolls' = IF outcome = "scroll_raises" THEN ws_scrolls ELSE ws_scrolls + 1
               /\ waits' = IF outcome = "scroll_raises" THEN waits ELSE waits + 1
               /\ ws_found' = (outcome = "found")
               /\ pc' = IF outcome = "found" THEN "done" ELSE "retry"
               /\ ret' = IF outcome = "found" THEN Result("True", <<>>) ELSE ret
       ELSE /\ pc' = "done"
            /\ ret' = Result("False", <<>>)
            /\ UNCHANGED <<attempt, waits, ws_scrolls, ws_found>>
    /\ UNCHANGED <<op, retries, ws_first, KeepButWs>>

\* ------------------------------------------------------------------ login
\* page.goto of the login page; a failed navigation returns False.
StartLogin ==
    /\ op = "idle"
    /\ op' = "login"
    /\ lg_checks' = 0
    /\ \E navFails \in BOOLEAN :
          /\ pc' = IF navFails THEN "done" ELSE "login_wait"
          /\ ret' = IF navFails THEN Result("False", <<>>) ELSE NoResult
    /\ UNCHANGED KeepButLg

\* One iteration of `for i in range(max_wait)`: _is_login_page() breaks the
\* loop when it finds an indicator; the 10th failed check ends it as well.
LoginWaitIter ==
    /\ op = "login" /\ pc = "login_wait"
    /\ lg_checks < max_wait
    /\ \E is_login_page \in BOOLEAN :
          /\ lg_checks' = lg_checks + 1
          /\ pc' = IF is_login_page \/ lg_checks + 1 >= max_wait THEN "login_form" ELSE "login_wait"
    /\ UNCHANGED <<op, ret, KeepButLg>>

\* The rest of login: cookies, credentials, _click_login_button and the
\* dialogs.  login returns False when the button click failed, True otherwise.
LoginSubmit ==
    /\ op = "login" /\ pc = "login_form"
    /\ \E is_login_success \in BOOLEAN :
          ret' = Result(IF is_login_success THEN "True" ELSE "False", <<>>)
    /\ pc' = "done"
    /\ UNCHANGED <<op, lgVars, KeepButLg>>

\* ------------------------------------------------- _extract_profile_stats
\* The texts the primary and the alternative locator of a counter can show
PrimaryQueries == {Miss, Found(None), Found(<<" ">>), Found(<<"1", ".", "5", "K">>)}
AltQueries == {Miss, Found(None), Found(<<>>), Found(<<" ", "2", "M">>)}

\* text = get_element_text(primary); if not text: text = get_element_text(alt)
CounterText(queries) ==
    LET text == get_element_text(queries[1])
    IN IF text = <<>> THEN get_element_text(queries[2]) ELSE text

NoQueries == [f \in {"followers", "following", "total_likes"} |-> <<Miss, Miss>>]
Profile(followers, following, total_likes) ==
    [followers |-> followers, following |-> following, total_likes |-> total_likes]

\* AdvancedTikTokXPathScraper._extract_profile_stats, the three counters (the
\* username, subtitle, bio and badge are copied from the page as they are).
\* parse_count is called outside any try: its ValueError leaves the function.
ExtractProfileStats ==
    /\ op = "idle"
    /\ op' = "profile_stats"
    /\ pc' = "done"
    /\ \E q \in [{"followers", "following", "total_likes"} -> PrimaryQueries \X AltQueries] :
          /\ stat_queries' = q
          /\ LET followers == parse_count(CounterText(q["followers"]))
                 following == parse_count(CounterText(q["following"]))
                 total_likes == parse_count(CounterText(q["total_likes"]))
             IN IF followers.raised \/ following.raised \/ total_likes.raised
                THEN /\ profile' = Profile(0, 0, 0)
                     /\ ret' = Raises
                ELSE /\ profile' = Profile(followers.val, following.val, total_likes.val)
                     /\ ret' = Result("None", <<Profile(followers.val, following.val, total_likes.val)>>)
    /\ UNCHANGED KeepButPs

\* ------------------------------------------------ _extract_post_engagement
LowerChar(c) ==
    CASE c = "K" -> "k" [] c = "M" -> "m" [] c = "B" -> "b" [] c = "L" -> "l"
      [] c = "C" -> "c" [] OTHER -> c
\* str.lower()
Lower(s) == [i \in 1..Len(s) |-> LowerChar(s[i])]
\* sub in s
ContainsSub(s, sub) == \E i \in 1..(Len(s) - Len(sub) + 1) : SubSeq(s, i, i + Len(sub) - 1) = sub

\* InstagramEngagementScraper._convert_to_number: float() of the suffix branch
\* is outside the try, so a numeral it rejects raises ValueError.
convert_to_number(text) ==
    LET t == Strip(RemoveChar(text, ","))
        up == Upper(t)
        WithSuffix(sfx) ==
            LET numeral == RemoveChar(up, sfx)
            IN IF FloatAccepts(numeral) THEN Returned(SignedScaledInt(numeral, Multiplier(sfx)))
               ELSE Raised
    IN IF Contains(up, "K") THEN WithSuffix("K")
       ELSE IF Contains(up, "M") THEN WithSuffix("M")
       ELSE IF Contains(up, "B") THEN WithSuffix("B")
       ELSE IF FloatAccepts(t) THEN Returned(SignedScaledInt(t, 1))
       ELSE Returned(0)

IsCountChar(c) == IsDigit(c) \/ c \in {",", "."}
HasCount(t) == \E i \in 1..Len(t) : IsCountChar(t[i])
\* re.search(r'([\d,\.]+[KMB]?)', text).group(1), for a text that has a match
CountGroup(t) ==
    LET s == CHOOSE i \in 1..Len(t) : IsCountChar(t[i]) /\ \A j \in 1..(i - 1) : ~IsCountChar(t[j])
        e == CHOOSE k \in s..Len(t) :
                /\ \A j \in s..k : IsCountChar(t[j])
                /\ (k = Len(t) \/ ~IsCountChar(t[k + 1]))
    IN IF e < Len(t) /\ t[e + 1] \in {"K", "M", "B"} THEN SubSeq(t, s, e + 1) ELSE SubSeq(t, s, e)
\* re.match(r'^[\d,\.]+[KMB]?\s*$', text)
IsBareCount(t) ==
    /\ HasCount(t) /\ IsCountChar(t[1])
    /\ LET g == CountGroup(t)
       IN \A j \in (Len(g) + 1)..Len(t) : IsSpace(t[j])

\* One selector of a fallback list of _extract_post_engagement, with at most
\* one element behind it: the value the field has after its try block, and
\* whether the block raised (except: continue).
\* data[field] = self._convert_to_number(...): the field keeps its value
\* when the conversion raises
Converted(n, value) ==
    IF n.raised THEN [raised |-> TRUE, val |-> value] ELSE [raised |-> FALSE, val |-> n.val]
TrySelector(c, keyword, bareCounts, value) ==
    IF c.raises THEN [raised |-> TRUE, val |-> value]
    ELSE IF c.text = None \/ c.text = <<>> THEN [raised |-> FALSE, val |-> value]
    ELSE IF (ContainsSub(Lower(c.text), keyword) \/ (bareCounts /\ IsBareCount(c.text))) /\ HasCount(c.text)
         THEN Converted(convert_to_number(CountGroup(c.text)), value)
    ELSE [raised |-> FALSE, val |-> value]

RECURSIVE TrySelectors(_, _, _, _)
\* `if data[field] > 0: break` after a selector that did not raise, the next
\* selector otherwise
AfterSelector(r, rest, keyword, bareCounts) ==
    IF ~r.raised /\ r.val > 0 THEN r.val
    ELSE TrySelectors(rest, keyword, bareCounts, r.val)
\* for selector in selectors: try: ...; if data[field] > 0: break / except: continue
TrySelectors(candidates, keyword, bareCounts, value) ==
    IF candidates = <<>> THEN value
    ELSE AfterSelector(TrySelector(Head(candidates), keyword, bareCounts, value),
                       Tail(candidates), keyword, bareCounts)

LikeWord == <<"l", "i", "k", "e">>
CommentWord == <<"c", "o", "m", "m", "e", "n", "t">>
EngagementData(likes, comments) == [likes |-> likes, comments |-> comments]
\* `return data if data['likes'] > 0 or data['comments'] > 0 else None`, and
\* the caller's `if post_data:`: the dict stands for None when both are 0.
IsNoneData(d) == ~(d.likes > 0 \/ d.comments > 0)

\* InstagramEngagementScraper._extract_post_engagement on a post page that
\* answers the three like selectors, the two comment selectors and the count
\* of comment items (-1: the count raises).
\* `if data['comments'] == 0:` the comment items are counted; the count may raise
CommentsOrItems(found, items) == IF found = 0 /\ items >= 0 THEN items ELSE found
extract_post_engagement(page) ==
    EngagementData(TrySelectors(page.likes, LikeWord, TRUE, 0),
                   CommentsOrItems(TrySelectors(page.comments, CommentWord, FALSE, 0), page.items))

PostPage(l, c, n) == [likes |-> l, comments |-> c, items |-> n]
LikeQueries ==
    {Miss, Found(None), Found(<<"5", " ", "l", "i", "k", "e", "s">>),
     Found(<<"1", ".", "5", "K">>), Found(<<"0", " ", "l", "i", "k", "e", "s">>),
     Found(<<"1", ".", ".", "K">>)}
CommentQueries == {Miss, Found(<<"3", " ">> \o CommentWord), Found(<<"a">>)}
PostPages ==
    {PostPage(l, c, n) : l \in [1..3 -> LikeQueries], c \in [1..2 -> CommentQueries], n \in {-1, 0, 2}}
NoPostPage == PostPage(<<>>, <<>>, 0)

ExtractPostEngagement ==
    /\ op = "idle"
    /\ op' = "post_engagement"
    /\ pc' = "done"
    /\ \E page \in PostPages :
          \E data \in {extract_post_engagement(page)} :
             /\ pe_page' = page
             /\ pe_data' = data
             /\ ret' = Result("None", IF IsNoneData(data) THEN <<>> ELSE <<data>>)
    /\ UNCHANGED KeepButPe

\* ---------------------------------------------------- _extract_posts_data
\* A link of the profile grid: reading its href raises, or the navigation of
\* the new page raises, or the post page loads and answers the selectors.
PostLink(fails, page) == [fails |-> fails, page |-> page]
PostLinkKinds ==
    { PostLink("href", NoPostPage), PostLink("goto", NoPostPage),
      PostLink("no", PostPage(<<Miss, Miss, Miss>>, <<Miss, Miss>>, -1)),
      PostLink("no", PostPage(<<Found(<<"5", " ", "l", "i", "k", "e", "s">>), Miss, Miss>>, <<Miss, Miss>>, 0)),
      PostLink("no", PostPage(<<Miss, Found(<<"1", ".", "5", "K">>), Miss>>,
                              <<Found(<<"3", " ">> \o CommentWord), Miss>>, 0)) }

\* wait_for_selector('article'), the three scrolls and the located links,
\* cut to max_posts; an exception so far returns the empty list.
StartExtractPostsData ==
    /\ op = "idle"
    /\ op' = "posts_data"
    /\ \E raises \in BOOLEAN, links \in SeqsUpTo(PostLinkKinds, MaxPosts), limit \in {1, max_posts} :
          /\ pd_max' = limit
          /\ pd_found' = IF raises THEN 0 ELSE Len(links)
          /\ post_pages' = IF raises THEN <<>> ELSE Take(links, limit)
          /\ pc' = IF raises THEN "done" ELSE "posts_loop"
          /\ ret' = IF raises THEN Result("None", <<>>) ELSE NoResult
    /\ pd_i' = 0
    /\ posts' = <<>>
    /\ open_pages' = 0
    /\ pd_trail' = <<>>
    /\ UNCHANGED KeepButPd

\* One iteration of `for i, link in enumerate(post_links, 1)`: the href is
\* read, the post is opened in a new page, its engagement is extracted and
\* appended unless None, the page is closed and time.sleep(1) follows; an
\* exception skips to the next link (except: continue), leaving out whatever
\* of the iteration had not run yet.
ExtractPostsDataIter ==
    /\ op = "posts_data" /\ pc = "posts_loop"
    /\ pd_i < Len(post_pages)
    /\ \E link \in {post_pages[pd_i + 1]} :
          \E engagement \in {extract_post_engagement(link.page)} :
             /\ posts' = IF link.fails = "no" /\ ~IsNoneData(engagement) THEN Append(posts, engagement) ELSE posts
             /\ open_pages' = IF link.fails = "goto" THEN open_pages + 1 ELSE open_pages
             /\ pd_trail' = CASE link.fails = "href" -> pd_trail
                               [] link.fails = "goto" -> Append(pd_trail, "goto")
                               [] OTHER -> pd_trail \o <<"goto", "sleep">>
    /\ pd_i' = pd_i + 1
    /\ UNCHANGED <<op, pc, ret, post_pages, pd_max, pd_found, KeepButPd>>

\* return posts
ExtractPostsDataReturn ==
    /\ op = "posts_data" /\ pc = "posts_loop"
    /\ pd_i >= Len(post_pages)
    /\ pc' = "done"
    /\ ret' = Result("None", posts)
    /\ UNCHANGED <<op, pdVars, KeepButPd>>

\* ------------------------------------------------------------ the machine
Finish ==
    /\ op # "idle" /\ pc = "done"
    /\ op' = "idle"
    /\ pc' = "idle"
    /\ ret' = NoResult
    /\ elems' = <<>>
    /\ max_videos' = 0
    /\ videos' = <<>>
    /\ scroll_attempts' = 0
    /\ last_count' = 0
    /\ no_change_count' = 0
    /\ nreads' = 0
    /\ prev_scroll' = -1
    /\ sc_i' = 0
    /\ sc_flag' = "None"
    /\ comment_elements' = <<>>
    /\ comments_data' = EmptyCommentsData
    /\ sp_i' = 0
    /\ val1' = -1
    /\ curr_scroll' = -2
    /\ like_texts' = <<>>
    /\ post_data' = PostData(0, 0)
    /\ retries' = 0
    /\ attempt' = 0
    /\ waits' = 0
    /\ ws_scrolls' = 0
    /\ ws_found' = FALSE
    /\ ws_first' = "none"
    /\ lg_checks' = 0
    /\ stat_queries' = NoQueries
    /\ profile' = Profile(0, 0, 0)
    /\ pe_page' = NoPostPage
    /\ pe_data' = EngagementData(0, 0)
    /\ post_pages' = <<>>
    /\ pd_i' = 0
    /\ posts' = <<>>
    /\ open_pages' = 0
    /\ pd_max' = 0
    /\ pd_found' = 0
    /\ pd_trail' = <<>>
    /\ UNCHANGED <<script, pureVars, drVars>>

\* a while loop of _load_videos that has not started
InitLoop ==
    /\ pc = "while"
    /\ ret = NoResult
    /\ videos = <<>>
    /\ scroll_attempts = 0
    /\ last_count = 0
    /\ no_change_count = 0

\* the state of the other operations before they run
InitOthers ==
    /\ prev_scroll = -1
    /\ sc_i = 0
    /\ sc_flag = "None"
    /\ comment_elements = <<>>
    /\ comments_data = EmptyCommentsData
    /\ sp_i = 0
    /\ val1 = -1
    /\ curr_scroll = -2
    /\ like_texts = <<>>
    /\ post_data = PostData(0, 0)
    /\ retries = 0
    /\ attempt = 0
    /\ waits = 0
    /\ ws_scrolls = 0
    /\ ws_found = FALSE
    /\ ws_first = "none"
    /\ lg_checks = 0
    /\ stat_queries = NoQueries
    /\ profile = Profile(0, 0, 0)
    /\ pe_page = NoPostPage
    /\ pe_data = EngagementData(0, 0)
    /\ post_pages = <<>>
    /\ pd_i = 0
    /\ posts = <<>>
    /\ open_pages = 0
    /\ pd_max = 0
    /\ pd_found = 0
    /\ pd_trail = <<>>

\* no batch function has been called
InitNoBatch ==
    /\ targets = <<>>
    /\ batch_fn = "none"
    /\ attempted = <<>>
    /\ results = <<>>
    /\ num_posts = 0
    /\ post_links = <<>>
    /\ bt_trail = <<>>
\* no main() runs
InitNoSession ==
    /\ sess_fn = "none"
    /\ login_env = "none"
    /\ login_ret = "unset"
    /\ submitted = 0
    /\ profile_scraped = FALSE

\* scrape_profile of scrapper-ig has not been called
InitNoFallback ==
    /\ guest_mode = FALSE
    /\ login_wall = FALSE
    /\ page_data = <<>>
    /\ fetch = <<>>
    /\ used_data = <<>>
\* no entry point has started a browser
InitNoLifecycle ==
    /\ lc_fn = "none"
    /\ lc_env = <<>>
    /\ lc_pc = "none"
    /\ browser = "none"
    /\ closes = 0
    /\ driver = "none"
    /\ page_ops = 0
    /\ late_ops = 0
    /\ stopped_open = FALSE
InitExtras == InitNoFallback /\ InitNoLifecycle

InitDrivers == InitNoBatch /\ InitNoSession /\ InitExtras

\* no parser has been called
NoParse == [parser |-> "none", result |-> Returned(0)]
InitParse ==
    /\ parse_text = <<>>
    /\ parsed = NoParse

\* no aggregation function has been called
NoMetrics == [fn |-> "none", result |-> Returned(0)]
InitAggregation ==
    /\ records = <<>>
    /\ followers_count = 0
    /\ profile_likes = 0
    /\ metrics = NoMetrics

\* the pure functions before they run
InitPure == InitParse /\ InitAggregation

\* _load_videos has not been called
InitNoVideos ==
    /\ elems = <<>>
    /\ max_videos = 0
    /\ videos = <<>>
    /\ scroll_attempts = 0
    /\ last_count = 0
    /\ no_change_count = 0
    /\ script = <<>>
    /\ nreads = 0

Init ==
    /\ op = "idle"
    /\ pc = "idle"
    /\ ret = NoResult
    /\ InitNoVideos
    /\ InitOthers
    /\ InitPure
    /\ InitDrivers

Next ==
    \/ StartLoadVideos
    \/ LoadVideosPass
    \/ LoadVideosReturn
    \/ LoadVideosRaise
    \/ StartScrapePostComments
    \/ ScrollCommentsIter
    \/ ScrollCommentsRaise
    \/ ScrollCommentsReturn
    \/ ExtractComments
    \/ StartScrapeSinglePost
    \/ SinglePostScrollIter
    \/ SinglePostAfterLoop
    \/ ScrapePostDetails
    \/ StartWaitForSelector
    \/ WaitForSelectorRetry
    \/ StartLogin
    \/ LoginWaitIter
    \/ LoginSubmit
    \/ ExtractProfileStats
    \/ ExtractPostEngagement
    \/ StartExtractPostsData
    \/ ExtractPostsDataIter
    \/ ExtractPostsDataReturn
    \/ Finish

Spec == Init /\ [][Next]_vars

\* ------------------------------------------------- scenario specifications
OkElem == VideoElem(<<" ", "1", "2", " ">>, <<"/", "v", "1">>, FALSE)
OkElems(n) == [i \in 1..n |-> OkElem]

\* _load_videos(30) on a page that shows script[k] well-formed elements at
\* the k-th reading (and the last count from then on).
InitReadings ==
    /\ op = "load_videos"
    /\ script \in [1..5 -> {10, 20}]
    /\ elems = OkElems(script[1])
    /\ max_videos = DefaultMaxVideos
    /\ nreads = 0
    /\ InitLoop
    /\ InitOthers
    /\ InitPure
    /\ InitDrivers

LoadVideosScripted ==
    /\ script # <<>>
    /\ LoadVideosBody(FALSE, FALSE,
                      OkElems(script[IF nreads + 2 <= Len(script) THEN nreads + 2 ELSE Len(script)]))

NextReadings == LoadVideosScripted \/ LoadVideosReturn
SpecReadings == InitReadings /\ [][NextReadings]_vars

\* _load_videos(30) on a page that exposes five elements of any kind
InitFive ==
    /\ op = "load_videos"
    /\ script = <<>>
    /\ elems \in [1..5 -> ElemKinds]
    /\ max_videos = DefaultMaxVideos
    /\ nreads = 0
    /\ InitLoop
    /\ InitOthers
    /\ InitPure
    /\ InitDrivers

NextFive == LoadVideosPass \/ LoadVideosReturn \/ LoadVideosRaise
SpecFive == InitFive /\ [][NextFive]_vars


\* _load_videos(10) on a page that shows script[k] well-formed elements at
\* the k-th reading, each reading showing 4 or 5 of them.
InitEndToEnd ==
    /\ op = "load_videos"
    /\ script \in [1..6 -> {4, 5}]
    /\ elems = OkElems(script[1])
    /\ max_videos = 10
    /\ nreads = 0
    /\ InitLoop
    /\ InitOthers
    /\ InitPure
    /\ InitDrivers

NextEndToEnd == LoadVideosScripted \/ LoadVideosReturn
SpecEndToEnd == InitEndToEnd /\ [][NextEndToEnd]_vars

\* _load_videos(30) on a page that shows script[k] well-formed elements at
\* the k-th reading, each reading showing none, one or two of them.
InitRuns ==
    /\ op = "load_videos"
    /\ script \in [1..5 -> {0, 1, 2}]
    /\ elems = OkElems(script[1])
    /\ max_videos = DefaultMaxVideos
    /\ nreads = 0
    /\ InitLoop
    /\ InitOthers
    /\ InitPure
    /\ InitDrivers

NextRuns == LoadVideosScripted \/ LoadVideosReturn
SpecRuns == InitRuns /\ [][NextRuns]_vars

\* --------------------------------------------------------- number parsers
MaxTextLen == 3
\* the characters of the texts the parsers are given
ParseChars == {"1", "5", ".", ",", "K", "M", " ", "a"}
ParseExamples ==
    { <<"1", ",", "2", "3", "4">>, <<"2", ".", "5", "K">>, <<"3", "M">>, <<"a", "b", "c">>,
      <<"1", ".", "2", "B">>, <<"B">>, <<"2", "b">>, <<"1", ".", "2", ".", "3">>, <<"1", "K", "M">>, <<"1", "2", " ", "l", "i", "k", "e", "s">> }
ParseTexts == SeqsUpTo(ParseChars, MaxTextLen) \cup ParseExamples

Parsed(parser, result) == [parser |-> parser, result |-> result]

\* a caller hands a text to one of the five parsers
InitParsers ==
    /\ op = "parse"
    /\ pc = "input"
    /\ ret = NoResult
    /\ InitNoVideos
    /\ InitOthers
    /\ parse_text \in ParseTexts
    /\ parsed = NoParse
    /\ InitAggregation
    /\ InitDrivers

ParseReturns(parser, result) ==
    /\ op = "parse" /\ pc = "input"
    /\ parsed' = Parsed(parser, result)
    /\ pc' = "done"
    /\ UNCHANGED <<op, ret, parse_text, agVars, pageVars, drVars>>

CallXPathParseCount == ParseReturns("xpath.parse_count", parse_count(parse_text))
CallTikTokParseCount == ParseReturns("tiktok.parse_count", TikTok_parse_count(parse_text))
CallIgCommentsParseNumber == ParseReturns("ig_comments._parse_number", Returned(IgComments_parse_number(parse_text)))
CallIgParseNumber == ParseReturns("instagram._parse_number", Ig_parse_number(parse_text))
CallConvertToNumber == ParseReturns("ig._convert_to_number", convert_to_number(parse_text))

NextParsers ==
    \/ CallXPathParseCount
    \/ CallTikTokParseCount
    \/ CallIgCommentsParseNumber
    \/ CallIgParseNumber
    \/ CallConvertToNumber
SpecParsers == InitParsers /\ [][NextParsers]_vars

\* ------------------------------------------------------------ aggregation
MaxRecords == 3
\* Rates, means and scores are numbers with two decimals: the model holds
\* them in hundredths.  round(num / den, 2) is the nearest hundredth; for a
\* quotient half way between two hundredths the result depends on how the
\* binary float stores it, so either neighbour is possible.  A zero divisor
\* is Python's ZeroDivisionError.  Every function below yields the set of the
\* results it can return.
Div(num, den) ==
    IF den = 0 THEN {Raised}
    ELSE LET q == num \div den
             r == num % den
         IN IF 2 * r < den THEN {Returned(q)}
            ELSE IF 2 * r > den THEN {Returned(q + 1)}
            ELSE {Returned(q), Returned(q + 1)}
\* int(num / den)
IntDiv(num, den) == IF den = 0 THEN {Raised} ELSE {Returned(num \div den)}
Exactly(v) == {Returned(v)}
\* one outcome for each of the values a function computes
Choices(parts) ==
    {c \in [1..Len(parts) -> UNION {parts[i] : i \in 1..Len(parts)}] : \A i \in 1..Len(parts) : c[i] \in parts[i]}
AnyRaised(c) == \E i \in 1..Len(c) : c[i].raised

RECURSIVE SumOf(_, _)
\* sum(r[field] for r in rs)
SumOf(rs, field) == IF rs = <<>> THEN 0 ELSE Head(rs)[field] + SumOf(Tail(rs), field)
\* max(..., default=0) and min(..., default=0) over the views
MaxViews(rs) == IF rs = <<>> THEN 0 ELSE CHOOSE v \in {rs[i].views : i \in 1..Len(rs)} : \A j \in 1..Len(rs) : rs[j].views <= v
MinViews(rs) == IF rs = <<>> THEN 0 ELSE CHOOSE v \in {rs[i].views : i \in 1..Len(rs)} : \A j \in 1..Len(rs) : rs[j].views >= v

\* InstagramScraper.calculate_engagement_rate
calculate_engagement_rate(post, followers) ==
    LET total_engagement == post.likes + post.comments
    IN IF followers > 0 THEN Div(total_engagement * 10000, followers) ELSE Exactly(0)

\* InstagramScraper.calculate_average_engagement: the rates of the posts are
\* summed and divided by their number
calculate_average_engagement(posts_data, followers) ==
    IF posts_data = <<>> \/ followers = 0 THEN Exactly(0)
    ELSE LET rates == [i \in 1..Len(posts_data) |-> calculate_engagement_rate(posts_data[i], followers)]
         IN UNION { IF AnyRaised(c) THEN {Raised}
                    ELSE Div(SumSeq([i \in 1..Len(c) |-> c[i].val]), Len(posts_data))
                    : c \in Choices(rates) }

\* InstagramEngagementScraper._calculate_engagement
Ig_calculate_engagement(followers, posts_data) ==
    IF posts_data = <<>> \/ followers = 0
    THEN Exactly([avg_likes |-> 0, avg_comments |-> 0, avg_total_engagement |-> 0, engagement_rate |-> 0])
    ELSE LET total_likes == SumOf(posts_data, "likes")
             total_comments == SumOf(posts_data, "comments")
             posts_n == Len(posts_data)
             avg_likes == Div(total_likes * 100, posts_n)
             avg_comments == Div(total_comments * 100, posts_n)
             avg_engagement == Div((total_likes + total_comments) * 100, posts_n)
             engagement_rate == IF followers > 0
                                THEN Div((total_likes + total_comments) * 10000, posts_n * followers)
                                ELSE Exactly(0)
         IN { IF AnyRaised(c) THEN Raised
              ELSE Returned([avg_likes |-> c[1].val, avg_comments |-> c[2].val,
                             avg_total_engagement |-> c[3].val, engagement_rate |-> c[4].val])
              : c \in Choices(<<avg_likes, avg_comments, avg_engagement, engagement_rate>>) }

RECURSIVE Gcd(_, _)
Gcd(a, b) == IF b = 0 THEN a ELSE Gcd(b, a % b)
\* the largest deviation the root is searched up to, in tenths of a percent
MaxDeviation == 3000
\* std_dev / avg_views * 100 for the sample standard deviation, in tenths of a
\* percent, truncated: the root of sq / den, where sq is the sum of the
\* squares of n * x - total and den is (n - 1) * total * total.
Deviation(view_counts) ==
    LET n == Len(view_counts)
        total == SumSeq(view_counts)
        sq == SumSeq([i \in 1..n |-> (n * view_counts[i] - total) * (n * view_counts[i] - total)])
        den == (n - 1) * total * total
        g == Gcd(sq, den)
    IN CHOOSE k \in 0..MaxDeviation :
          /\ k * k * (den \div g) <= 1000000 * (sq \div g)
          /\ (k = MaxDeviation \/ (k + 1) * (k + 1) * (den \div g) > 1000000 * (sq \div g))

\* mutant: the deviation is not capped at 100
Consistency_NoCap(view_counts) ==
    IF Len(view_counts) > 1
    THEN IF SumSeq(view_counts) > 0 THEN 1000 - Deviation(view_counts) ELSE 0
    ELSE 0
\* consistency = 100 - min(std_dev / avg_views * 100, 100) if avg_views > 0
\* else 0, and 0 for a single video; in tenths of a percent
Consistency(view_counts) ==
    IF Len(view_counts) > 1
    THEN IF SumSeq(view_counts) > 0
         THEN 1000 - (IF Deviation(view_counts) < 1000 THEN Deviation(view_counts) ELSE 1000)
         ELSE 0
    ELSE 0

\* mutant: the rate is computed without the followers > 0 guard
ProfileRate_NoGuard(likes, followers) == Div(likes * 10000, followers)
\* (total_likes / followers * 100) if followers > 0 else 0
ProfileRate(likes, followers) ==
    IF followers > 0 THEN Div(likes * 10000, followers) ELSE Exactly(0)

\* AdvancedTikTokXPathScraper._calculate_metrics
calculate_metrics(followers, total_likes, vids) ==
    LET video_count == Len(vids)
        total_views == SumOf(vids, "views")
        engagement_rate == ProfileRate(total_likes, followers)
        avg_views == IntDiv(total_views, video_count)
        views_per_follower == IF followers > 0 THEN Div(total_views * 100, video_count * followers)
                              ELSE Exactly(0)
        virality_score == IF followers > 0 THEN Div(total_views * 10000, video_count * followers)
                          ELSE Exactly(0)
        likes_per_video == IF video_count > 0 THEN IntDiv(total_likes, video_count) ELSE Exactly(0)
    IN IF video_count = 0 THEN Exactly([error |-> TRUE, videos_analyzed |-> 0])
       ELSE { IF AnyRaised(c) THEN Raised
              ELSE Returned([total_engagement_rate |-> c[1].val,
                             avg_views_per_video |-> c[2].val,
                             max_views |-> MaxViews(vids),
                             min_views |-> MinViews(vids),
                             total_views_analyzed |-> total_views,
                             videos_analyzed |-> video_count,
                             views_per_follower |-> c[3].val,
                             virality_score |-> c[4].val,
                             consistency_score |-> Consistency([i \in 1..video_count |-> vids[i].views]),
                             likes_per_video_estimate |-> c[5].val])
              : c \in Choices(<<engagement_rate, avg_views, views_per_follower, virality_score, likes_per_video>>) }

\* TikTokProfileScraper.calculate_engagement
TikTok_calculate_engagement(followers, likes, vids) ==
    LET video_count == Len(vids)
        total_engagement_rate == ProfileRate(likes, followers)
        total_views == SumOf(vids, "views")
        avg_views == IF video_count > 0 THEN IntDiv(total_views, video_count) ELSE Exactly(0)
        view_follower_ratio == IF followers > 0
                               THEN (IF video_count > 0 THEN Div(total_views * 10000, video_count * followers)
                                     ELSE Exactly(0))
                               ELSE Exactly(0)
    IN { IF AnyRaised(c) THEN Raised
         ELSE Returned([total_engagement_rate |-> c[1].val,
                        avg_views_per_video |-> c[2].val,
                        view_follower_ratio |-> c[3].val,
                        total_likes |-> likes,
                        total_followers |-> followers,
                        total_views |-> total_views])
         : c \in Choices(<<total_engagement_rate, avg_views, view_follower_ratio>>) }

\* the records the aggregation functions are given
Rec(likes, comments, views) == [likes |-> likes, comments |-> comments, views |-> views]
RecordKinds == {Rec(0, 0, 0), Rec(100, 0, 100), Rec(50, 0, 200), Rec(0, 1, 300), Rec(50, 1, 100)}
FollowerCounts == {0, 7, 10000}
ProfileLikes == {0, 150}

Metrics(fn, result) == [fn |-> fn, result |-> result]

\* a caller hands records and a profile to one of the aggregation functions
InitMetrics ==
    /\ op = "metrics"
    /\ pc = "input"
    /\ ret = NoResult
    /\ InitNoVideos
    /\ InitOthers
    /\ InitParse
    /\ InitDrivers
    /\ records \in SeqsUpTo(RecordKinds, MaxRecords)
    /\ followers_count \in FollowerCounts
    /\ profile_likes \in ProfileLikes
    /\ metrics = NoMetrics

MetricsReturns(fn, outcomes) ==
    /\ op = "metrics" /\ pc = "input"
    /\ \E result \in outcomes : metrics' = Metrics(fn, result)
    /\ pc' = "done"
    /\ UNCHANGED <<op, ret, records, followers_count, profile_likes, pnVars, pageVars, drVars>>

CallCalculateEngagementRate ==
    /\ records # <<>>
    /\ MetricsReturns("calculate_engagement_rate", calculate_engagement_rate(records[1], followers_count))
CallCalculateAverageEngagement ==
    MetricsReturns("calculate_average_engagement", calculate_average_engagement(records, followers_count))
CallIgCalculateEngagement ==
    MetricsReturns("_calculate_engagement", Ig_calculate_engagement(followers_count, records))
CallCalculateMetrics ==
    MetricsReturns("_calculate_metrics", calculate_metrics(followers_count, profile_likes, records))
CallTikTokCalculateEngagement ==
    MetricsReturns("calculate_engagement", TikTok_calculate_engagement(followers_count, profile_likes, records))

NextMetrics ==
    \/ CallCalculateEngagementRate
    \/ CallCalculateAverageEngagement
    \/ CallIgCalculateEngagement
    \/ CallCalculateMetrics
    \/ CallTikTokCalculateEngagement
SpecMetrics == InitMetrics /\ [][NextMetrics]_vars

\* ------------------------------------------------------ batches of targets
\* A batch function visits a list of targets (post URLs, usernames, post
\* links); targets[k] tells whether the page of the k-th target loads.  The
\* scrape of a page that loads hands back the data of that target.
MaxTargets == 3
TargetLists == SeqsUpTo(BOOLEAN, MaxTargets)
BatchFunctions == {"scrape_posts_comments", "compare_multiple_profiles", "scrape_posts"}
\* what a function keeps for target k: its data, or the empty list that
\* scrape_post_comments returns for a post that does not load
Scraped(k) == [target |-> k, scraped |-> TRUE]
NotScraped(k) == [target |-> k, scraped |-> FALSE]

\* a caller hands a list of targets to a batch function; scrape_posts
\* collects its post links itself
\* NUM_POSTS of main() of instagram_scraper, also the default of num_posts
NUM_POSTS == 12

InitBatch ==
    /\ op = "batch"
    /\ batch_fn \in BatchFunctions
    /\ pc = IF batch_fn = "scrape_posts" THEN "links" ELSE "batch_loop"
    /\ targets \in IF batch_fn = "scrape_posts" THEN {<<>>} ELSE TargetLists
    /\ attempted = <<>>
    /\ results = <<>>
    /\ num_posts \in IF batch_fn = "scrape_posts" THEN {1, 2, NUM_POSTS} ELSE {0}
    /\ post_links = <<>>
    /\ bt_trail = <<>>
    /\ ret = NoResult
    /\ InitNoVideos
    /\ InitOthers
    /\ InitPure
    /\ InitNoSession
    /\ InitExtras

\* One iteration of `for idx, post_url in enumerate(post_urls, 1)` of
\* scrape_posts_comments: scrape_post_comments catches the failure of
\* page.goto and returns [], which is appended like any other result.
ScrapePostsCommentsIter ==
    /\ pc = "batch_loop" /\ batch_fn = "scrape_posts_comments"
    /\ Len(attempted) < Len(targets)
    /\ LET k == Len(attempted) + 1
       IN /\ attempted' = Append(attempted, k)
          /\ results' = Append(results, IF targets[k] THEN Scraped(k) ELSE NotScraped(k))
          /\ bt_trail' = bt_trail \o <<"goto", "sleep">>
    /\ UNCHANGED <<op, pc, ret, targets, batch_fn, num_posts, post_links, ssVars, pageVars, pureVars, xtVars>>

\* One iteration of `for username in usernames` of compare_multiple_profiles:
\* scrape_profile re-raises the failure of page.goto, the except of the
\* iteration prints it and the loop goes on.  The pauses of an iteration,
\* asyncio.sleep(3) of scrape_profile and asyncio.sleep(5) of the loop, come
\* after page.goto inside the try: a navigation that raises skips them.
CompareProfilesIter ==
    /\ pc = "batch_loop" /\ batch_fn = "compare_multiple_profiles"
    /\ Len(attempted) < Len(targets)
    /\ LET k == Len(attempted) + 1
       IN /\ attempted' = Append(attempted, k)
          /\ results' = IF targets[k] THEN Append(results, Scraped(k)) ELSE results
          /\ bt_trail' = IF targets[k]
                          THEN bt_trail \o <<"goto", "sleep">>
                          ELSE Append(bt_trail, "goto")
    /\ UNCHANGED <<op, pc, ret, targets, batch_fn, num_posts, post_links, ssVars, pageVars, pureVars, xtVars>>

\* mutant: every link found is visited
PostUrls_NoLimit(links, limit) == links
\* post_urls = [... for link in post_links[:num_posts]]
PostUrls(links, limit) == Take(links, limit)

\* scrape_posts up to its loop: page.goto of the profile, the scroll and the
\* post links, all inside the try; an exception returns the empty posts_data.
ScrapePostsLinks ==
    /\ pc = "links" /\ batch_fn = "scrape_posts"
    /\ \E raises \in BOOLEAN, links \in TargetLists :
          IF raises
          THEN /\ pc' = "done"
               /\ ret' = Result("None", results)
               /\ UNCHANGED <<targets, post_links>>
          ELSE /\ pc' = "batch_loop"
               /\ post_links' = links
               /\ targets' = PostUrls(links, num_posts)
               /\ UNCHANGED ret
    /\ UNCHANGED <<op, batch_fn, attempted, results, num_posts, bt_trail, ssVars, pageVars, pureVars, xtVars>>

\* The loop of scrape_posts: _scrape_single_post calls page.goto outside any
\* try, so its failure lands in the except of scrape_posts, which returns
\* posts_data; after a post that loads, `break` leaves the loop.
ScrapePostsIter ==
    /\ pc = "batch_loop" /\ batch_fn = "scrape_posts"
    /\ Len(attempted) < Len(targets)
    /\ LET k == Len(attempted) + 1
           posts_data == IF targets[k] THEN Append(results, Scraped(k)) ELSE results
       IN /\ attempted' = Append(attempted, k)
          /\ results' = posts_data
          /\ ret' = Result("None", posts_data)
          /\ bt_trail' = IF targets[k] THEN bt_trail \o <<"goto", "sleep">>
                                       ELSE Append(bt_trail, "goto")
    /\ pc' = "done"
    /\ UNCHANGED <<op, targets, batch_fn, num_posts, post_links, ssVars, pageVars, pureVars, xtVars>>

\* the loop has run out of targets: `return results`
BatchReturn ==
    /\ pc = "batch_loop"
    /\ Len(attempted) = Len(targets)
    /\ pc' = "done"
    /\ ret' = Result("None", results)
    /\ UNCHANGED <<op, btVars, ssVars, pageVars, pureVars, xtVars>>

NextBatch ==
    \/ ScrapePostsCommentsIter
    \/ CompareProfilesIter
    \/ ScrapePostsLinks
    \/ ScrapePostsIter
    \/ BatchReturn
SpecBatch == InitBatch /\ [][NextBatch]_vars

\* scrape_posts called on its own, with a limit of its caller's choice
StartScrapePosts ==
    /\ op = "idle"
    /\ op' = "batch"
    /\ pc' = "links"
    /\ batch_fn' = "scrape_posts"
    /\ num_posts' \in {1, 2, NUM_POSTS}
    /\ UNCHANGED <<ret, targets, attempted, results, post_links, bt_trail, ssVars, pageVars, pureVars, xtVars>>

\* The three functions that take a limit on the number of items, each called
\* once from the idle state.
NextLimits ==
    \/ StartLoadVideos
    \/ LoadVideosPass
    \/ LoadVideosReturn
    \/ LoadVideosRaise
    \/ StartExtractPostsData
    \/ ExtractPostsDataIter
    \/ ExtractPostsDataReturn
    \/ StartScrapePosts
    \/ ScrapePostsLinks
    \/ ScrapePostsIter
    \/ BatchReturn
SpecLimits == Init /\ [][NextLimits]_vars

\* ------------------------------------------------------------------ main()
\* How Instagram answers the login flow: the login page does not load, the
\* login button is not found, the click on it raises, the click is answered
\* by an error or checkpoint page, or the account is logged in.
LoginOutcomes == {"goto_fails", "no_button", "click_raises", "challenged", "logged_in"}
Mains == {"ig_comments", "instagram_scraper"}

\* clicks on the login button: _click_login_button has one selector and
\* clicks it when query_selector finds the element
Clicks(env) == IF env \in {"goto_fails", "no_button"} THEN 0 ELSE 1

\* InstagramCommentsScraper.login: False when the page does not load or
\* _click_login_button returns False (no button, click raised, error
\* indicator found after the click), True at the end of the flow
IgComments_login(env) == IF env = "logged_in" THEN "True" ELSE "False"

\* InstagramScraper.login: False when the page does not load; a bare
\* `return` when _click_login_button returns False; no return statement at
\* the end of the flow.  _click_login_button does not look at the page
\* after the click.
Instagram_login(env) == IF env = "goto_fails" THEN "False" ELSE "None"

\* main() has started the browser
InitSession ==
    /\ op = "main"
    /\ pc = "login"
    /\ sess_fn \in Mains
    /\ login_env \in LoginOutcomes
    /\ login_ret = "unset"
    /\ submitted = 0
    /\ profile_scraped = FALSE
    /\ targets \in IF sess_fn = "ig_comments" THEN TargetLists ELSE {<<>>}
    /\ batch_fn = "none"
    /\ attempted = <<>>
    /\ results = <<>>
    /\ num_posts = 0
    /\ post_links = <<>>
    /\ bt_trail = <<>>
    /\ ret = NoResult
    /\ InitNoVideos
    /\ InitOthers
    /\ InitPure
    /\ InitExtras

\* scraper.login()
MainLogin ==
    /\ op = "main" /\ pc = "login"
    /\ login_ret' = IF sess_fn = "ig_comments" THEN IgComments_login(login_env) ELSE Instagram_login(login_env)
    /\ submitted' = submitted + Clicks(login_env)
    /\ pc' = "after_login"
    /\ UNCHANGED <<op, ret, sess_fn, login_env, profile_scraped, btVars, pageVars, pureVars, xtVars>>

\* main of ig_scrapper_comments_from_post: `if not scraper.login(): return`,
\* then scrape_posts_comments(POST_URLS)
IgCommentsMainAfterLogin ==
    /\ op = "main" /\ pc = "after_login" /\ sess_fn = "ig_comments"
    /\ IF login_ret # "True"
       THEN /\ pc' = "done"
            /\ ret' = Result("None", <<>>)
            /\ UNCHANGED batch_fn
       ELSE /\ pc' = "batch_loop"
            /\ batch_fn' = "scrape_posts_comments"
            /\ UNCHANGED ret
    /\ UNCHANGED <<op, targets, attempted, results, num_posts, post_links, bt_trail, ssVars, pageVars, pureVars, xtVars>>

\* main of instagram_scraper: the value of scraper.login() is dropped and
\* scrape_profile and scrape_posts follow; page.goto of scrape_profile is
\* outside its try and its exception ends main
InstagramMainAfterLogin ==
    /\ op = "main" /\ pc = "after_login" /\ sess_fn = "instagram_scraper"
    /\ profile_scraped' = TRUE
    /\ \E goto_raises \in BOOLEAN :
          IF goto_raises
          THEN /\ pc' = "done"
               /\ ret' = Raises
               /\ UNCHANGED <<batch_fn, num_posts>>
          ELSE /\ pc' = "links"
               /\ batch_fn' = "scrape_posts"
               /\ num_posts' = NUM_POSTS
               /\ UNCHANGED ret
    /\ UNCHANGED <<op, targets, attempted, results, post_links, bt_trail, sess_fn, login_env, login_ret, submitted, pageVars, pureVars, xtVars>>

NextSession ==
    \/ MainLogin
    \/ IgCommentsMainAfterLogin
    \/ InstagramMainAfterLogin
    \/ ScrapePostsCommentsIter
    \/ ScrapePostsLinks
    \/ ScrapePostsIter
    \/ BatchReturn
SpecSession == InitSession /\ [][NextSession]_vars

\* ------------------------------------------- scrapper-ig: the JSON fallback
\* profile_data of scrapper-ig: followers, following and total_posts
IgProfile(followers, following, total_posts) ==
    [followers |-> followers, following |-> following, total_posts |-> total_posts]
\* profile = {'followers': 0, 'following': 0, 'total_posts': 0}
ZeroProfile == IgProfile(0, 0, 0)
\* what _extract_profile_stats and _extract_posts_data read from the page
PageData(profile_data, posts_data) == [profile |-> profile_data, posts |-> posts_data]
PageDatas ==
    { PageData(pr, ps) : pr \in {ZeroProfile, IgProfile(1000, 10, 5)},
                         ps \in SeqsUpTo({EngagementData(5, 3)}, 2) }
\* what the public JSON endpoint answers: a status other than 200, a request
\* that raises, a body without a user object, or a user with its counters
\* and the edges of its timeline
Fetch(kind, user_profile, user_posts) == [kind |-> kind, profile |-> user_profile, posts |-> user_posts]
Fetches ==
    { Fetch("http_error", ZeroProfile, <<>>), Fetch("request_error", ZeroProfile, <<>>),
      Fetch("no_user", ZeroProfile, <<>>),
      Fetch("user", IgProfile(2000, 20, 8), <<>>),
      Fetch("user", IgProfile(2000, 20, 8), <<EngagementData(7, 1)>>) }

\* _fetch_profile_json: profile and posts start as the zero counters and the
\* empty list and are filled only from a user object; every exception is
\* caught, so the pair is returned in all cases.
fetch_profile_json(answer) ==
    IF answer.kind = "user"
    THEN PageData(answer.profile, answer.posts)
    ELSE PageData(ZeroProfile, <<>>)

\* need_fallback of scrape_profile
need_fallback(guest, wall, data) ==
    guest \/ data.profile.followers = 0 \/ Len(data.posts) = 0 \/ wall

\* `if json_profile: profile_data = json_profile`: a dict with three keys is
\* true whatever its values; `if json_posts: posts_data = json_posts`: a list
\* is true when it is not empty.
AfterFallback(data, json) ==
    PageData(json.profile, IF json.posts # <<>> THEN json.posts ELSE data.posts)

InitFallback ==
    /\ op = "scrape_profile"
    /\ pc = "fallback"
    /\ ret = NoResult
    /\ guest_mode \in BOOLEAN
    /\ login_wall \in BOOLEAN
    /\ page_data \in PageDatas
    /\ fetch \in Fetches
    /\ used_data = <<>>
    /\ InitNoVideos /\ InitOthers /\ InitPure
    /\ InitNoBatch /\ InitNoSession /\ InitNoLifecycle

\* scrape_profile of scrapper-ig from the page data on: the fallback when it
\* is needed, then _calculate_engagement on profile_data and posts_data.
ScrapeProfileFallback ==
    /\ op = "scrape_profile" /\ pc = "fallback"
    /\ \E used \in {IF need_fallback(guest_mode, login_wall, page_data)
                     THEN AfterFallback(page_data, fetch_profile_json(fetch))
                     ELSE page_data} :
          /\ used_data' = used
          /\ \E engagement \in Ig_calculate_engagement(used.profile.followers, used.posts) :
                ret' = Result("None", <<engagement>>)
    /\ pc' = "done"
    /\ UNCHANGED <<op, guest_mode, login_wall, page_data, fetch, lcVars, btVars, ssVars, pageVars, pureVars>>

\* page.goto of the profile raises: the except of scrape_profile returns None
ScrapeProfileGotoRaises ==
    /\ op = "scrape_profile" /\ pc = "fallback"
    /\ pc' = "done"
    /\ ret' = Result("None", <<>>)
    /\ UNCHANGED <<op, fbVars, lcVars, btVars, ssVars, pageVars, pureVars>>

NextFallback == ScrapeProfileFallback \/ ScrapeProfileGotoRaises
SpecFallback == InitFallback /\ [][NextFallback]_vars

\* ------------------------------------------------ entry points: the browser
\* The scripts whose entry point starts a browser: main() of
\* ig_scrapper_comments_from_post, instagram_scraper and scrapper-tiktok,
\* which call start / initialize inside `try ... finally: scraper.close()`,
\* and scrape_profile of scrapper-ig, which launches the browser inside
\* `with sync_playwright() as p:` and before its try.
EntryPoints == {"ig_comments", "instagram_scraper", "scrapper_tiktok", "scrapper_ig"}
\* the most page operations an entry point performs before it ends
MaxOps == 2
\* How far the start gets (the driver, the browser, the page) and how the
\* work ends after `steps` page operations.
EntryEnvs ==
    [start : {"driver_fails", "launch_fails", "page_fails", "ok"},
     work : {"login_fails", "raises", "completes"},
     steps : 0..MaxOps]

InitRelease ==
    /\ op = "entry"
    /\ pc = "run"
    /\ ret = NoResult
    /\ lc_fn \in EntryPoints
    /\ lc_env \in EntryEnvs
    /\ lc_pc = "start"
    /\ browser = "none"
    /\ closes = 0
    /\ driver = "none"
    /\ page_ops = 0
    /\ late_ops = 0
    /\ stopped_open = FALSE
    /\ InitNoVideos /\ InitOthers /\ InitPure
    /\ InitNoBatch /\ InitNoSession /\ InitNoFallback

\* Where an exception of the start leads.  In the three main() the start is
\* inside the try and the finally calls close().  In scrape_profile of
\* scrapper-ig the start is before the try: the exception leaves the function
\* through the exit of `with sync_playwright()`, if the driver had started.
StartFailed(fn, started) ==
    IF fn = "scrapper_ig" THEN (IF started THEN "exit" ELSE "done") ELSE "close"

\* sync_playwright().start() / __enter__
StartDriver ==
    /\ op = "entry" /\ lc_pc = "start"
    /\ IF lc_env.start = "driver_fails"
       THEN /\ lc_pc' = StartFailed(lc_fn, FALSE)
            /\ UNCHANGED driver
       ELSE /\ lc_pc' = "launch"
            /\ driver' = "running"
    /\ UNCHANGED <<op, pc, ret, lc_fn, lc_env, browser, closes, page_ops, late_ops, stopped_open,
                   fbVars, btVars, ssVars, pageVars, pureVars>>

\* chromium.launch(...)
LaunchBrowser ==
    /\ op = "entry" /\ lc_pc = "launch"
    /\ IF lc_env.start = "launch_fails"
       THEN /\ lc_pc' = StartFailed(lc_fn, TRUE)
            /\ UNCHANGED browser
       ELSE /\ lc_pc' = "page"
            /\ browser' = "open"
    /\ UNCHANGED <<op, pc, ret, lc_fn, lc_env, closes, driver, page_ops, late_ops, stopped_open,
                   fbVars, btVars, ssVars, pageVars, pureVars>>

\* browser.new_context().new_page() / browser.new_page()
NewPage ==
    /\ op = "entry" /\ lc_pc = "page"
    /\ lc_pc' = IF lc_env.start = "page_fails" THEN StartFailed(lc_fn, TRUE) ELSE "work"
    /\ UNCHANGED <<op, pc, ret, lc_fn, lc_env, browser, closes, driver, page_ops, late_ops, stopped_open,
                   fbVars, btVars, ssVars, pageVars, pureVars>>

\* one operation on the page: of login, of the scraping functions
PageOperation ==
    /\ op = "entry" /\ lc_pc = "work"
    /\ page_ops < lc_env.steps
    /\ page_ops' = page_ops + 1
    /\ late_ops' = IF browser = "closed" THEN late_ops + 1 ELSE late_ops
    /\ UNCHANGED <<op, pc, ret, lc_fn, lc_env, lc_pc, browser, closes, driver, stopped_open,
                   fbVars, btVars, ssVars, pageVars, pureVars>>

\* The work ends: login fails and main returns, an exception reaches the
\* except of the entry point, or the work completes.  All three are inside
\* the try, so the finally follows.
EndWork ==
    /\ op = "entry" /\ lc_pc = "work"
    /\ page_ops = lc_env.steps
    /\ lc_pc' = "close"
    /\ UNCHANGED <<op, pc, ret, lc_fn, lc_env, browser, closes, driver, page_ops, late_ops, stopped_open,
                   fbVars, btVars, ssVars, pageVars, pureVars>>

\* finally: close() does `if self.browser: self.browser.close()`;
\* scrape_profile of scrapper-ig does browser.close()
CloseBrowser ==
    /\ op = "entry" /\ lc_pc = "close"
    /\ IF browser = "none"
       THEN UNCHANGED <<browser, closes>>
       ELSE /\ browser' = "closed"
            /\ closes' = closes + 1
    /\ lc_pc' = "exit"
    /\ UNCHANGED <<op, pc, ret, lc_fn, lc_env, driver, page_ops, late_ops, stopped_open,
                   fbVars, btVars, ssVars, pageVars, pureVars>>

\* `if self.playwright: self.playwright.stop()` of close(); the exit of
\* `with sync_playwright()` in scrapper-ig
StopDriver ==
    /\ op = "entry" /\ lc_pc = "exit"
    /\ IF driver = "running"
       THEN /\ driver' = "stopped"
            /\ stopped_open' = (browser = "open")
       ELSE UNCHANGED <<driver, stopped_open>>
    /\ lc_pc' = "done"
    /\ UNCHANGED <<op, pc, ret, lc_fn, lc_env, browser, closes, page_ops, late_ops,
                   fbVars, btVars, ssVars, pageVars, pureVars>>

NextRelease ==
    \/ StartDriver
    \/ LaunchBrowser
    \/ NewPage
    \/ PageOperation
    \/ EndWork
    \/ CloseBrowser
    \/ StopDriver
SpecRelease == InitRelease /\ [][NextRelease]_vars

\* ================================================================ claims
\* _load_videos has left its while loop, or is at a loop test that fails
LoadVideosHalted ==
    /\ op = "load_videos"
    /\ \/ pc \in {"return", "raise", "done"}
       \/ pc = "while" /\ ~LoadVideosWhile(videos, max_videos, scroll_attempts)
\* the attempt cap was hit with neither a stable count nor a full list
LoadVideosExhausted ==
    /\ op = "load_videos"
    /\ scroll_attempts >= max_scrolls
    /\ no_change_count < NoChangeThreshold
    /\ Len(videos) < max_videos

\* C1 as stated: a pagination loop halts only because its stable counter
\* reached the threshold or its attempts reached the cap.
C1_HaltsOnlyOnThresholdOrCap ==
    /\ LoadVideosHalted =>
          (no_change_count >= NoChangeThreshold \/ scroll_attempts >= max_scrolls)
    /\ (op = "post_comments" /\ pc \in {"scrolled", "scroll_raised"}) =>
          (sc_flag = "True" \/ sc_i >= max_attempts)
    /\ (op = "single_post" /\ pc \in {"window_done", "window_raised"}) =>
          (val1 = curr_scroll \/ sp_i >= PostMaxAttempts)

\* C1 (amended): each pagination loop has halted exactly when its stable
\* counter reached the threshold, or its attempts reached the cap, or its
\* scroll call raised, or (in _load_videos) the records reached max_videos;
\* while none of these holds the loop is still running.
C1_HaltsExactlyWhen ==
    /\ op = "load_videos" =>
          (LoadVideosHalted <=>
              \/ no_change_count >= NoChangeThreshold
              \/ scroll_attempts >= max_scrolls
              \/ Len(videos) >= max_videos
              \/ pc = "raise" \/ ret.raised)
    /\ (op = "post_comments" /\ pc \in {"scroll", "scrolled", "scroll_raised"}) =>
          (pc # "scroll" <=>
              (sc_flag = "True" \/ sc_i >= max_attempts \/ pc = "scroll_raised"))
    /\ (op = "single_post" /\ pc \in {"window_loop", "window_done", "window_raised"}) =>
          (pc # "window_loop" <=>
              (val1 = curr_scroll \/ sp_i >= PostMaxAttempts \/ pc = "window_raised"))

\* C1 witness: _load_videos has stopped on a full list, short of the threshold
\* and of the cap.
C1_Witness ==
    /\ op = "load_videos" /\ pc = "done" /\ ~ret.raised
    /\ max_videos > 0 /\ Len(videos) >= max_videos
    /\ no_change_count < NoChangeThreshold /\ scroll_attempts < max_scrolls

\* C2 as stated: a loop that exhausted its attempt cap without stabilising
\* hands its caller the flag False and does not raise.
C2_NonConvergenceReportedAsFlag ==
    /\ (op = "post_comments" /\ pc = "scrolled" /\ sc_i >= max_attempts /\ sc_flag # "True") =>
          sc_flag = "False"
    /\ (LoadVideosExhausted /\ pc = "done") =>
          (ret.flag = "False" /\ ~ret.raised)

\* C4: no loop exceeds its cap: at most 30 scroll actions in
\* _scroll_comments_to_end, 20 in _load_videos, 20 in the comment window of
\* _scrape_single_post, retries+1 selector waits and 10 login-page checks; a
\* loop that reached its cap has stopped iterating, and an operation that
\* finished after entering its loop has handed a result to its caller or, for
\* _load_videos alone, raised the error of its scroll call.
C4_CapsHold ==
    /\ sc_i <= max_attempts
    /\ scroll_attempts <= max_scrolls
    /\ sp_i <= PostMaxAttempts
    /\ waits <= retries + 1
    /\ attempt <= retries
    /\ lg_checks <= max_wait
    /\ (op = "post_comments" /\ sc_i >= max_attempts) => pc # "scroll"
    /\ (op = "load_videos" /\ scroll_attempts >= max_scrolls) => LoadVideosHalted
    /\ (op = "single_post" /\ sp_i >= PostMaxAttempts) => pc # "window_loop"
    /\ (op = "login" /\ lg_checks >= max_wait) => pc # "login_wait"
    /\ (op = "wait_selector" /\ attempt >= retries /\ pc = "done") => ret.flag \in {"True", "False"}
    /\ (op \in {"post_comments", "wait_selector", "login"} /\ pc = "done") => ~ret.raised
    /\ (op = "single_post" /\ pc = "done" /\ sp_i > 0) => ~ret.raised
    /\ (op = "load_videos" /\ pc = "done" /\ scroll_attempts >= max_scrolls) => ~ret.raised

\* C4 witness: a loop has run into its cap and returned a result
C4_Witness ==
    \/ op = "load_videos" /\ pc = "done" /\ scroll_attempts = max_scrolls /\ ~ret.raised
    \/ op = "single_post" /\ pc = "done" /\ sp_i = PostMaxAttempts /\ val1 # curr_scroll /\ ~ret.raised
    \/ op = "wait_selector" /\ pc = "done" /\ retries > 0 /\ waits = retries + 1 /\ ret.flag = "False"

Good(c) == ~c.raises /\ c.text # None /\ Strip(c.text) # <<>>
\* the trimmed text of the first good candidate in list order, else the default
FirstGood(candidates, default) ==
    IF \E i \in 1..Len(candidates) : Good(candidates[i])
    THEN Strip(candidates[CHOOSE i \in 1..Len(candidates) :
                  Good(candidates[i]) /\ \A j \in 1..(i - 1) : ~Good(candidates[j])].text)
    ELSE default
\* the number each counter text of the model's pages stands for
CounterValue(text) ==
    IF text = <<"1", ".", "5", "K">> THEN 1500
    ELSE IF text = <<"2", "M">> THEN 2000000 ELSE 0

CommentsExtracted ==
    op = "post_comments" /\ pc = "done" /\ comments_data.comments_details # <<>>

\* C5: a field resolved over an ordered candidate list is the trimmed text of
\* the first candidate that matches with non-empty text after trimming, and
\* the default when every candidate misses: the text and username of every
\* comment record (default N/A) and the three counters of the profile
\* statistics (default '', parsed as 0).
C5_FirstNonEmptyCandidateWins ==
    /\ CommentsExtracted =>
          \A k \in 1..Len(comments_data.comments_details) :
             /\ comments_data.comments_details[k].text = FirstGood(comment_elements[k].text, NA)
             /\ comments_data.comments_details[k].username = FirstGood(comment_elements[k].user, NA)
    /\ (op = "profile_stats" /\ ~ret.raised) =>
          /\ profile.followers = CounterValue(FirstGood(stat_queries["followers"], <<>>))
          /\ profile.following = CounterValue(FirstGood(stat_queries["following"], <<>>))
          /\ profile.total_likes = CounterValue(FirstGood(stat_queries["total_likes"], <<>>))

\* C5 witness: a comment whose first text candidate matched only whitespace
\* and whose second candidate supplied the text, and a follower count taken
\* from the alternative locator because the primary one found no node.
C5_Witness ==
    \/ /\ CommentsExtracted
       /\ comment_elements[1].text = <<Found(<<" ">>), Found(<<"b">>)>>
       /\ comments_data.comments_details[1].text = <<"b">>
    \/ /\ op = "profile_stats"
       /\ stat_queries["followers"] = <<Found(None), Found(<<" ", "2", "M">>)>>
       /\ profile.followers = 2000000

\* the value a like selector of the model's pages yields when it is reached
LikeValue(c) ==
    IF c = Found(<<"5", " ", "l", "i", "k", "e", "s">>) THEN 5
    ELSE IF c = Found(<<"1", ".", "5", "K">>) THEN 1500 ELSE 0
\* the like selector raises: the locator does, or the conversion of its text
LikeRaises(c) == c.raises \/ c = Found(<<"1", ".", ".", "K">>)

\* C6: an error raised while one candidate is tried is a miss of that
\* candidate only: the candidates after it are still tried, and the error
\* never leaves the resolution (comment texts, profile counters, post likes).
C6_ErrorIsAMissOfOneCandidate ==
    /\ CommentsExtracted =>
          \A k \in 1..Len(comments_data.comments_details) :
             (comment_elements[k].text[1].raises /\ Good(comment_elements[k].text[2])) =>
                 comments_data.comments_details[k].text = Strip(comment_elements[k].text[2].text)
    /\ (op = "post_comments" /\ pc = "done") => ~ret.raised
    /\ (op = "profile_stats" /\ stat_queries["followers"][1].raises /\ Good(stat_queries["followers"][2])) =>
          (~ret.raised /\ profile.followers = CounterValue(Strip(stat_queries["followers"][2].text)))
    /\ op = "post_engagement" =>
          /\ ~ret.raised
          /\ (LikeRaises(pe_page.likes[1]) /\ LikeValue(pe_page.likes[2]) > 0) =>
                pe_data.likes = LikeValue(pe_page.likes[2])
          /\ (LikeRaises(pe_page.likes[1]) /\ LikeRaises(pe_page.likes[2])) =>
                pe_data.likes = LikeValue(pe_page.likes[3])

\* C6 witness: a comment whose first text locator raised and whose second
\* supplied the text; a post whose first two like selectors raised and whose
\* third supplied the count.
C6_Witness ==
    \/ /\ CommentsExtracted
       /\ comment_elements[1].text = <<Miss, Found(<<"b">>)>>
       /\ comments_data.comments_details[1].text = <<"b">>
    \/ /\ op = "post_engagement"
       /\ pe_page.likes = <<Miss, Found(<<"1", ".", ".", "K">>), Found(<<"1", ".", "5", "K">>)>>
       /\ pe_data.likes = 1500

\* ---- per-item isolation
Min(a, b) == IF a < b THEN a ELSE b
\* the links of a profile grid whose post yields a record
Yielding == {k \in 1..Len(post_pages) :
                post_pages[k].fails = "no" /\ ~IsNoneData(extract_post_engagement(post_pages[k].page))}

\* C7: a failing item never ends the sequence.  In _load_videos every element
\* enumerated by the latest reading has its record, and an element behind a
\* failing one still gets its own link; in scrape_post_comments every comment
\* element has its record; in _extract_posts_data every link is processed and
\* every post that yields data is returned, whatever failed before it.
C7_FailingItemDoesNotAbort ==
    /\ (op = "load_videos" /\ max_videos >= 0) =>
          /\ Len(videos) >= Min(last_count, max_videos)
          /\ \A j \in 1..Min(Len(videos), Len(elems)) :
                (~elems[j].detached /\ elems[j].href # None /\ elems[j].href # <<>>
                   /\ ~VideoRaises(elems, elems[j])) =>
                    videos[j].url = elems[j].href
    /\ CommentsExtracted => Len(comments_data.comments_details) = Len(comment_elements)
    /\ (op = "posts_data" /\ pc = "done" /\ post_pages # <<>>) =>
          /\ pd_i = Len(post_pages)
          /\ Len(ret.items) = Cardinality(Yielding)

\* C7 witness: a record extracted behind a failing item, in each of the loops
C7_Witness ==
    \/ /\ op = "load_videos" /\ pc = "done" /\ Len(ret.items) >= 2 /\ Len(elems) >= 2
       /\ elems[1].detached /\ ret.items[1].url = None
       /\ ~elems[2].detached /\ ret.items[2].url = <<"/", "v", "1">>
    \/ /\ op = "posts_data" /\ pc = "done" /\ Len(post_pages) = 2
       /\ post_pages[1].fails = "goto" /\ Yielding = {2} /\ Len(ret.items) = 1

\* ---- C8
\* a record that is flagged partial and filled with the defaults
IsPartialDefault(r) ==
    "partial" \in DOMAIN r /\ r.partial = TRUE /\ r.views = 0 /\ r.url = None
\* C8 as stated: of five enumerated items with a throwing third, five records
\* are returned, the third flagged partial with default values, the others
\* fully populated.
C8_ThrowingItemKeptAsPartial ==
    (/\ op = "load_videos" /\ pc = "done" /\ ~ret.raised
     /\ Len(elems) = 5 /\ last_count = 5
     /\ elems[3].detached
     /\ \A i \in {1, 2, 4, 5} : elems[i] = OkElem) =>
        /\ Len(ret.items) = 5
        /\ IsPartialDefault(ret.items[3])
        /\ \A i \in {1, 2, 4, 5} : ret.items[i] = VideoRecord(i, 12, <<"/", "v", "1">>)

\* ---- C9
\* C9: every record carries the 1-based position of its source element: the
\* k-th video record has index k at every point of _load_videos and in what it
\* returns, and the k-th comment record has index k and the fields of the
\* k-th comment element.
C9_IndexIsDiscoveryPosition ==
    /\ op = "load_videos" =>
          /\ \A k \in 1..Len(videos) : videos[k].index = k
          /\ \A k \in 1..Len(ret.items) : ret.items[k].index = k
    /\ CommentsExtracted =>
          /\ Len(comments_data.comments_details) = Len(comment_elements)
          /\ \A k \in 1..Len(comments_data.comments_details) :
                /\ comments_data.comments_details[k].index = k
                /\ comments_data.comments_details[k].username = FirstGood(comment_elements[k].user, NA)

\* C9 witness: records returned after the element list grew between passes
C9_Witness ==
    /\ op = "load_videos" /\ pc = "done" /\ Len(ret.items) = MaxElems
    /\ scroll_attempts >= 2 /\ ret.items[MaxElems].index = MaxElems

\* ---- C10
IsPrefix(s, t) == Len(s) <= Len(t) /\ SubSeq(t, 1, Len(s)) = s
\* C10: within one run of _load_videos every step leaves the records already
\* appended as they are and at most appends behind them.
C10_PassesOnlyAppend ==
    [][(op = "load_videos" /\ op' = "load_videos") => IsPrefix(videos, videos')]_vars

\* C10 witness: a pass re-read an unchanged, non-empty element list on top of
\* the records of the pass before it.
C10_Witness ==
    /\ op = "load_videos" /\ pc = "while" /\ no_change_count >= 1
    /\ last_count >= 2 /\ Len(videos) = last_count /\ nreads >= 2

\* ---- C11
\* C11 as stated: with an item limit of 0, _load_videos returns one record for
\* every element the page shows.
C11_ZeroLimitMeansAll ==
    (op = "load_videos" /\ pc = "done" /\ max_videos = 0 /\ ~ret.raised) =>
        Len(ret.items) = Len(elems)

\* ---- C12
\* C12 as stated: on a page that shows 4 items and a 5th from the third
\* reading on (after 2 scroll actions), _load_videos(10) returns exactly five
\* records with indices 1..5 and reports convergence as the flag True.
C12_EndToEndConverged ==
    (op = "load_videos" /\ pc = "done" /\ max_videos = 10 /\ script = <<4, 4, 5, 5, 5, 5>>) =>
        /\ ~ret.raised
        /\ Len(ret.items) = 5
        /\ \A k \in 1..Len(ret.items) : ret.items[k].index = k
        /\ ret.flag = "True"

\* ---- C13
\* C13 as stated: whatever text a number parser is given, it returns an
\* integer and does not raise.
C13_ParsersNeverRaise ==
    (op = "parse" /\ pc = "done") => ~parsed.result.raised

\* ---- C14
\* the value the claim gives for each of its six example texts
ExampleValue(t) ==
    CASE t = <<"1", ",", "2", "3", "4">> -> 1234
      [] t = <<"2", ".", "5", "K">> -> 2500
      [] t = <<"3", "M">> -> 3000000
      [] t = <<>> -> 0
      [] t = <<"a", "b", "c">> -> 0
      [] t = <<"1", ".", "2", "B">> -> 1200000000
      [] OTHER -> -1
\* C14 as stated: every parser maps "1,234" to 1234, "2.5K" to 2500, "3M" to
\* 3000000, "" to 0, "abc" to 0 and "1.2B" to 1200000000.
C14_ParsersAgreeOnExamples ==
    (op = "parse" /\ pc = "done" /\ ExampleValue(parse_text) >= 0) =>
        (~parsed.result.raised /\ parsed.result.val = ExampleValue(parse_text))

\* ---- C15
\* the engagement rates a result carries
RatesOf(m) ==
    CASE m.fn \in {"calculate_engagement_rate", "calculate_average_engagement"} -> {m.result.val}
      [] m.fn = "_calculate_engagement" -> {m.result.val.engagement_rate}
      [] m.fn = "calculate_engagement" -> {m.result.val.total_engagement_rate}
      [] m.fn = "_calculate_metrics" ->
            IF "total_engagement_rate" \in DOMAIN m.result.val
            THEN {m.result.val.total_engagement_rate} ELSE {}
      [] OTHER -> {}
MeanKeys(fn) ==
    CASE fn = "_calculate_engagement" -> {"avg_likes", "avg_comments", "avg_total_engagement"}
      [] fn = "_calculate_metrics" -> {"avg_views_per_video"}
      [] fn = "calculate_engagement" -> {"avg_views_per_video"}
      [] OTHER -> {}
\* C16 as stated: for an empty record sequence the summary reports every
\* per-field mean, each with value 0.
C16_EmptyMeansAreZero ==
    (op = "metrics" /\ pc = "done" /\ records = <<>> /\ MeanKeys(metrics.fn) # {}) =>
        /\ ~metrics.result.raised
        /\ \A k \in MeanKeys(metrics.fn) :
              k \in DOMAIN metrics.result.val /\ metrics.result.val[k] = 0

\* ---- C17
\* (sum of likes and comments over the records) / followers * 100, rounded
SumRate(rs, followers) ==
    {r.val : r \in Div((SumOf(rs, "likes") + SumOf(rs, "comments")) * 10000, followers)}
\* the records a function works on: calculate_engagement_rate has one post
RecordsOf(m) == IF m.fn = "calculate_engagement_rate" THEN <<records[1]>> ELSE records
\* C17 as stated: with followers, the engagement rate is the sum of the
\* interaction counts over all records divided by the follower count, times
\* 100 and rounded to 2 decimals, and the mean of the views is their sum
\* divided by their number.
C17_RateIsSumOverFollowers ==
    (op = "metrics" /\ pc = "done" /\ records # <<>> /\ followers_count > 0 /\ ~metrics.result.raised) =>
        /\ \A r \in RatesOf(metrics) : r \in SumRate(RecordsOf(metrics), followers_count)
        /\ metrics.fn \in {"_calculate_metrics", "calculate_engagement"} =>
              metrics.result.val.avg_views_per_video = SumOf(records, "views") \div Len(records)

\* ---- C18
\* the view counts of the records
ViewsOf(rs) == [i \in 1..Len(rs) |-> rs[i].views]
\* C18: for a non-empty sequence of records the consistency score of
\* _calculate_metrics lies in 0..100 (held in tenths), is 0 for fewer than 2
\* records and is 100 when 2 or more records all have one positive view count.
C18_ConsistencyInRange ==
    (op = "metrics" /\ pc = "done" /\ metrics.fn = "_calculate_metrics" /\ records # <<>>) =>
        /\ ~metrics.result.raised
        /\ metrics.result.val.consistency_score \in 0..1000
        /\ Len(records) < 2 => metrics.result.val.consistency_score = 0
        /\ (Len(records) >= 2 /\ records[1].views > 0
                /\ \A i \in 1..Len(records) : records[i].views = records[1].views) =>
              metrics.result.val.consistency_score = 1000
\* two scores have been returned for 2 or more records: 100 for equal
\* positive views, or 0 for views that deviate by more than their mean
C18_Witness ==
    /\ op = "metrics" /\ pc = "done" /\ metrics.fn = "_calculate_metrics"
    /\ Len(records) >= 2
    /\ ~metrics.result.raised
    /\ \/ /\ records[1].views > 0
          /\ \A i \in 1..Len(records) : records[i].views = records[1].views
          /\ records[1] # records[2]
          /\ metrics.result.val.consistency_score = 1000
       \/ /\ SumSeq(ViewsOf(records)) > 0
          /\ Deviation(ViewsOf(records)) > 1000
          /\ metrics.result.val.consistency_score = 0

\* ---- C19
\* the targets of the batch whose page loads, in order
Loading(ts) == SelectSeq([k \in 1..Len(ts) |-> k], LAMBDA k : ts[k])
\* the targets whose data the results hold, in order
ScrapedTargets(rs) == [i \in 1..Len(SelectSeq(rs, LAMBDA r : r.scraped)) |-> SelectSeq(rs, LAMBDA r : r.scraped)[i].target]
\* C19 as stated: whichever targets fail to load, a batch function that has
\* returned has attempted every target in order and returns the results of
\* the targets that loaded.
C19_FailureIsPerTarget ==
    (op = "batch" /\ pc = "done") =>
        /\ attempted = [k \in 1..Len(targets) |-> k]
        /\ ~ret.raised
        /\ ScrapedTargets(ret.items) = Loading(targets)

\* ---- C20
\* the login flow has failed: no button, a click that raised, or an error or
\* checkpoint page after the click
LoginFailed == login_ret # "unset" /\ login_env \in {"no_button", "click_raises", "challenged"}
\* C20 as stated: once the login flow has failed, login has told its caller
\* so, no profile and no post is scraped in the session, and the credentials
\* were submitted at most once.
C20_LoginFailureEndsSession ==
    (op = "main" /\ LoginFailed) =>
        /\ login_ret = "False"
        /\ ~profile_scraped
        /\ attempted = <<>>
        /\ batch_fn = "none"
        /\ submitted <= 1

\* ---- C21
\* the element count of the k-th reading of a scripted page
Reading(k) == Len(OkElems(script[IF k <= Len(script) THEN k ELSE Len(script)]))
RECURSIVE RunLength(_)
\* the length of the run of unchanged readings that ends with the n-th
\* reading: a reading is unchanged when its count is the previous reading's
RunLength(n) ==
    IF n <= 1 THEN 0
    ELSE IF Reading(n) = Reading(n - 1) THEN RunLength(n - 1) + 1
    ELSE 0
\* C21 as stated: after every reading of _load_videos no_change_count is the
\* length of the current run of consecutive unchanged readings, and the loop
\* has stopped once the counter is at the threshold.
C21_CounterIsRunLength ==
    (op = "load_videos" /\ script # <<>> /\ nreads >= 1) =>
        /\ no_change_count = RunLength(nreads)
        /\ no_change_count >= NoChangeThreshold => LoadVideosHalted

\* ---- C22
\* C22 as stated: the views value of every record of _load_videos is the
\* number in the views node of the record's own element.
C22_FieldsFromOwnElement ==
    op = "load_videos" =>
        \A j \in 1..Min(Len(videos), Len(elems)) :
            (~elems[j].detached /\ elems[j].views # None) =>
                videos[j].views = parse_count(elems[j].views).val

\* ---- C23
\* C23 as stated: with a positive limit, the videos of _load_videos never
\* outnumber max_videos, after any pass and in the list returned, and the
\* post links scrape_posts and _extract_posts_data go through never outnumber
\* their limit.
C23_LimitsHold ==
    /\ (op = "load_videos" /\ max_videos > 0) =>
           /\ Len(videos) <= max_videos
           /\ Len(ret.items) <= max_videos
    /\ (batch_fn = "scrape_posts" /\ num_posts > 0) =>
           /\ Len(targets) <= num_posts
           /\ Len(attempted) <= num_posts
    /\ (op = "posts_data" /\ pd_max > 0) =>
           /\ Len(post_pages) <= pd_max
           /\ pd_i <= pd_max
\* the page holds more post links than the limit and the list is cut to it
C23_Witness ==
    /\ batch_fn = "scrape_posts" /\ pc = "done"
    /\ num_posts > 0
    /\ Len(post_links) > num_posts
    /\ Len(targets) = num_posts
\* more video elements than the limit, and the limit is what is returned
C23_WitnessVideos ==
    /\ op = "load_videos" /\ pc = "done"
    /\ max_videos > 0
    /\ Len(elems) > max_videos
    /\ Len(ret.items) = max_videos
\* more post links than max_posts, cut to max_posts
C23_WitnessPostPages ==
    /\ op = "posts_data" /\ pc = "done"
    /\ pd_found > pd_max
    /\ Len(post_pages) = pd_max

\* ---- C24
\* C24 as stated: _wait_for_selector_with_retries never raises and returns
\* True exactly when one of its waits found the selector, False otherwise;
\* every retry wait comes after one scroll of its own, there are at most
\* `retries` retry waits, and an initial wait that fails with anything but a
\* timeout returns False without a retry.
C24_WaitWithRetries ==
    op = "wait_selector" =>
        /\ ~ret.raised
        /\ pc = "done" => ret.flag = (IF ws_found THEN "True" ELSE "False")
        /\ ws_found => pc = "done"
        /\ waits - 1 = ws_scrolls
        /\ waits - 1 <= retries
        /\ ws_scrolls <= attempt /\ attempt <= retries
        /\ ws_first = "error" =>
              /\ pc = "done" /\ ret.flag = "False"
              /\ attempt = 0 /\ waits = 1 /\ ws_scrolls = 0
        /\ ws_first = "found" => attempt = 0 /\ waits = 1 /\ ws_scrolls = 0
\* the initial wait timed out, two retries timed out after their scroll and
\* the third retry found the selector
C24_Witness ==
    /\ op = "wait_selector" /\ pc = "done"
    /\ ws_first = "timeout"
    /\ retries = 3 /\ attempt = 3 /\ waits = 4 /\ ws_scrolls = 3
    /\ ret.flag = "True"
\* the initial wait failed with an error other than a timeout
C24_WitnessError ==
    /\ op = "wait_selector" /\ pc = "done"
    /\ ws_first = "error" /\ retries > 0
    /\ ret.flag = "False"

\* ---- C25
\* no navigation follows another without a pause in between
Paced(trail) == \A i \in 1..(Len(trail) - 1) : ~(trail[i] = "goto" /\ trail[i + 1] = "goto")
\* C25 as stated: in compare_multiple_profiles, scrape_posts_comments and
\* _extract_posts_data a pause separates any two consecutive navigations to
\* targets, also when the earlier target failed.
C25_PauseBetweenTargets ==
    /\ batch_fn \in {"compare_multiple_profiles", "scrape_posts_comments"} => Paced(bt_trail)
    /\ op = "posts_data" => Paced(pd_trail)

\* ---- C26
\* C26 as stated: when the public JSON fetch fails or finds no user, the
\* profile counters and the post list read from the page are the ones handed
\* to the engagement calculation.
C26_FailedFetchKeepsPageData ==
    (op = "scrape_profile" /\ pc = "done" /\ used_data # <<>> /\ fetch.kind # "user") =>
        used_data = page_data

\* ---- C27
\* C27 as stated: when no post page raises, scrape_posts has visited every
\* post link found up to num_posts and returns one record per visited link,
\* in link order: min(links found, num_posts) records.
C27_EveryLinkUpToLimit ==
    (batch_fn = "scrape_posts" /\ pc = "done" /\ num_posts > 0
        /\ \A k \in 1..Len(targets) : targets[k]) =>
        /\ attempted = [k \in 1..Min(Len(post_links), num_posts) |-> k]
        /\ Len(ret.items) = Min(Len(post_links), num_posts)
        /\ ScrapedTargets(ret.items) = attempted

\* ---- C28
\* C28 as stated: each comment-like text counts for what _parse_number
\* returns for it, its magnitude suffix applied once ("2K likes" is 2000),
\* and post_data['likes'] is the sum of these values.
C28_SuffixAppliedOnce ==
    (op = "single_post" /\ pc = "done" /\ ~ret.raised /\ ret.items # <<>>) =>
        post_data.likes = SumSeq([i \in 1..Len(like_texts) |-> Ig_parse_number(like_texts[i]).val])

\* ---- C30
\* C30 as stated: every post page _extract_posts_data opens is closed before
\* the next post is processed, on the failure path as well: no post page is
\* open between two posts or when the function returns.
C30_PostPagesClosed ==
    op = "posts_data" => open_pages = 0

\* ---- C29
\* C29 as stated: once an entry point has started the browser, on every path
\* the browser is closed exactly once, it is closed before the Playwright
\* driver is stopped, and no page operation comes after the close.
C29_BrowserReleased ==
    (op = "entry" /\ browser # "none") =>
        /\ closes <= 1
        /\ late_ops = 0
        /\ ~stopped_open
        /\ driver = "stopped" => browser = "closed"
        /\ lc_pc = "done" => (browser = "closed" /\ closes = 1)

====
